---- MODULE Spec2Model ----
(***************************************************************************)
(* Call / construct signature resolution of the stc type checker           *)
(* (crates/stc_ts_file_analyzer/src/analyzer/expr/call_new.rs).            *)
(*                                                                         *)
(* Option<T> values are modelled as sequences of length 0 (None) or 1      *)
(* (Some(x)).  Types are records with a field k naming the variant.        *)
(***************************************************************************)
EXTENDS Integers, Sequences, FiniteSets, TLC

VARIABLES
    pc,               \* position of the operation under analysis
    v,                \* test_arg_check_result_order: the vector being sorted
    expected,         \* test_arg_check_result_order: the vector after v.sort()
    params,           \* &[FnParam]: formal parameters of the signature under check
    args,             \* &[RExprOrSpread]: argument expressions of the call site
    is_calling_iife,  \* ctx.is_calling_iife
    arg_count_res,    \* VResult<()> of validate_arg_count
    spread_arg_types, \* &[TypeOrSpread]: argument types after spread_args
    is_generic,       \* validate_arg_types(.., is_generic)
    storage,          \* self.storage: the diagnostics reported so far
    call,             \* the expression under validation: site, callee, kind,
                      \* expr, type_args, arg_types and type_ann (see CallInit)
    reevaluating_call_or_new, \* ctx.reevaluating_call_or_new
    candidates,       \* the candidates the site selected from
    callable,         \* candidates paired with their classification, sorted
    result,           \* VResult<Option<Type>> of the site
    exprs,            \* the call expressions nested in the expression under validation
    stack,            \* the validators in progress, innermost last
    validated,        \* per call expression: executions of its validator
    reevaluated,      \* per call expression: re-invocations by get_return_type
    previous_types,   \* find_var_type(var_name): the type of the guarded identifier
    predicate_ty,     \* the type a predicate call asserts for the identifier
    narrowed,         \* the types add_type_fact has recorded for the identifier
    call_facts,       \* add_call_facts: the identifiers given to store_call_fact_for_var
    scope_this,       \* self.scope.this
    this_call,        \* call_property under analysis: obj_type, kind, the argument type
    this_inner,       \* self.scope.this as the body of call_property left it
    this_result,      \* VResult<Type> of call_property: "Ok" or "Err"
    this_err,         \* the ErrorKind of call_property when it returned Err
    parents_tried,    \* interface arm of call_property: the parents it was called on
    is_call_arg_count_unknown \* self.scope.is_call_arg_count_unknown

sortVars == <<v, expected>>
arityVars == <<params, args, is_calling_iife, arg_count_res>>
argTypesVars == <<spread_arg_types, is_generic, storage>>
callVars == <<call, reevaluating_call_or_new, candidates, callable, result>>
reevalVars == <<exprs, stack, validated, reevaluated>>
narrowVars == <<previous_types, predicate_ty, narrowed, call_facts>>
thisVars == <<scope_this, this_call, this_inner, this_result, this_err, parents_tried>>
spreadVars == <<is_call_arg_count_unknown>>
vars == <<pc, v, expected, params, args, is_calling_iife, arg_count_res,
          spread_arg_types, is_generic, storage,
          call, reevaluating_call_or_new, candidates, callable, result,
          exprs, stack, validated, reevaluated,
          previous_types, predicate_ty, narrowed, call_facts,
          scope_this, this_call, this_inner, this_result, this_err, parents_tried,
          is_call_arg_count_unknown>>

None == <<>>
Some(x) == <<x>>

\* ------------------------------------------------------------------------
\* Bounds
\* ------------------------------------------------------------------------
MaxSortLen == 4
MaxParams == 3
MaxArgs == 4
MaxCheckedParams == 2
MaxCheckedArgs == 3

RECURSIVE SeqsUpTo(_, _)
SeqsUpTo(S, n) ==
    IF n = 0 THEN {<<>>}
    ELSE LET shorter == SeqsUpTo(S, n - 1)
         IN  shorter \cup {Append(s, x) : s \in {t \in shorter : Len(t) = n - 1}, x \in S}

\* ------------------------------------------------------------------------
\* ArgCheckResult and its derived ordering
\* ------------------------------------------------------------------------
ArgCheckResult == {"Exact", "MayBe", "ArgTypeMismatch", "WrongArgCount"}

\* A derive(Ord) that lists MayBe after ArgTypeMismatch.
ArgCheckResultOrdSwapped(r) ==
    CASE r = "Exact" -> 0
      [] r = "ArgTypeMismatch" -> 1
      [] r = "MayBe" -> 2
      [] r = "WrongArgCount" -> 3

\* #[derive(PartialOrd, Ord)]: variants compare by declaration position.
ArgCheckResultOrd(r) ==
    CASE r = "Exact" -> 0
      [] r = "MayBe" -> 1
      [] r = "ArgTypeMismatch" -> 2
      [] r = "WrongArgCount" -> 3

\* slice::sort / sort_by_key are stable: an element is placed after every
\* earlier element whose key is less than or equal to its own.  keys is the
\* sequence of sort keys; the result is the order in which the positions of
\* keys appear after the sort.
RECURSIVE InsertByKey(_, _, _)
InsertByKey(order, i, keys) ==
    IF order = <<>> THEN <<i>>
    ELSE IF keys[Head(order)] <= keys[i]
         THEN <<Head(order)>> \o InsertByKey(Tail(order), i, keys)
         ELSE <<i>> \o order

RECURSIVE StableSortOrder(_, _)
StableSortOrder(keys, n) ==
    IF n = 0 THEN <<>>
    ELSE InsertByKey(StableSortOrder(keys, n - 1), n, keys)

\* v.sort() on a Vec<ArgCheckResult>
SortResults(s) ==
    LET keys == [i \in 1..Len(s) |-> ArgCheckResultOrd(s[i])]
        order == StableSortOrder(keys, Len(s))
    IN  [i \in 1..Len(s) |-> s[order[i]]]

\* ------------------------------------------------------------------------
\* Types, patterns and parameters
\* ------------------------------------------------------------------------
Keyword(kind) == [k |-> "Keyword", kind |-> kind]
Array(elem_kind) == [k |-> "Array", elem_type |-> Keyword(elem_kind)]
Tuple(elems) == [k |-> "Tuple", elems |-> elems]
\* tuple element types: a plain type, T? (Type::Optional) or ...T (Type::Rest)
OptionalTy(kind) == [k |-> "Optional", ty |-> Keyword(kind)]
RestTy(kind) == [k |-> "Rest", ty |-> Array(kind)]
TypeParamTy(name) == [k |-> "Param", name |-> name]
\* Type::Param(TypeParam { name, constraint: Some(constraint), .. })
ConstrainedParam(name, constraint) == [k |-> "Param", name |-> name, constraint |-> constraint]
HasConstraint(ty) == ty.k = "Param" /\ "constraint" \in DOMAIN ty

\* RPat: the binding pattern of a parameter.
IdentPat(sym, optional) == [k |-> "Ident", sym |-> sym, optional |-> optional, type_ann |-> FALSE, elems |-> <<>>]
ThisPat == IdentPat("this", FALSE)
\* ...name, or ...[e1, e2] when elems is not empty; elems lists the element
\* patterns of the array pattern ("hole" for an elided element).
RestPat(type_ann, elems) == [k |-> "Rest", sym |-> "", optional |-> FALSE, type_ann |-> type_ann, elems |-> elems]
ArrayPat(optional) == [k |-> "Array", sym |-> "", optional |-> optional, type_ann |-> FALSE, elems |-> <<>>]
ObjectPat(optional) == [k |-> "Object", sym |-> "", optional |-> optional, type_ann |-> FALSE, elems |-> <<>>]
AssignPat == [k |-> "Assign", sym |-> "", optional |-> FALSE, type_ann |-> FALSE, elems |-> <<>>]
InvalidPat == [k |-> "Invalid", sym |-> "", optional |-> FALSE, type_ann |-> FALSE, elems |-> <<>>]

FnParam(pat, ty, required) == [pat |-> pat, ty |-> ty, required |-> required]

IsThisPat(pat) == pat.k = "Ident" /\ pat.sym = "this"

\* Types in this model are already in normal form (no references, aliases or
\* queries), so Type::normalize and Type::normalize_instance return them as
\* they are.
Normalize(ty) == ty

IsAny(ty) == ty.k = "Keyword" /\ ty.kind = "any"

\* The assignability relation of the type algebra, restricted to the types
\* of this model: assign(to, rhs).is_ok()
Assignable(to, rhs) ==
    \/ to = rhs
    \/ IsAny(to)
    \/ IsAny(rhs)
    \/ (to.k = "Keyword" /\ to.kind = "unknown")
    \/ (rhs.k = "Keyword" /\ rhs.kind = "never")
    \/ (to.k = "Keyword" /\ to.kind = "void" /\ rhs.k = "Keyword" /\ rhs.kind = "undefined")
    \/ (to.k = "Array" /\ rhs.k = "Array" /\ IsAny(rhs.elem_type))
    \/ (to.k = "Optional" /\ (to.ty = rhs \/ IsAny(rhs)))

RECURSIVE SumSeq(_)
SumSeq(s) == IF s = <<>> THEN 0 ELSE Head(s) + SumSeq(Tail(s))

\* ------------------------------------------------------------------------
\* validate_arg_count
\* ------------------------------------------------------------------------
\* fn count_required_pat(p: &RPat) -> usize
count_required_pat(p) ==
    CASE p.k = "Rest" ->
            IF p.type_ann THEN 0
            ELSE SumSeq([i \in 1..Len(p.elems) |->
                    CASE p.elems[i] = "hole" -> 1
                      [] p.elems[i] \in {"ArrayRequired", "ObjectRequired"} -> 1
                      [] OTHER -> 0])
      [] p.k = "Ident" /\ p.sym = "this" -> 0
      [] p.k = "Ident" -> IF p.optional THEN 0 ELSE 1
      [] p.k = "Array" -> IF p.optional THEN 0 ELSE 1
      [] p.k = "Object" -> IF p.optional THEN 0 ELSE 1
      [] OTHER -> 0

\* The loop over the elements of a rest parameter's tuple type: max is an
\* Option<usize>; a ...T element makes it None and leaves the loop.
RECURSIVE MaxAfterTupleElems(_, _)
MaxAfterTupleElems(elems, max) ==
    IF elems = <<>> THEN max
    ELSE LET elem == Normalize(Head(elems))
         IN  CASE elem.k = "Rest" -> None
               [] elem.k = "Optional" -> MaxAfterTupleElems(Tail(elems), max)
               [] OTHER -> MaxAfterTupleElems(Tail(elems),
                                IF max # None THEN Some(max[1] + 1) ELSE max)

\* One iteration of `for (index, param) in params.iter().enumerate()`.
\* st = [min |-> min_param, max |-> max_param]
ArgCountStep(st, ps, index) ==
    LET param == ps[index]
        dec(m) == IF m # None THEN Some(m[1] - 1) ELSE m
        void_check(st1) ==
            IF /\ param.required
               /\ ~IsAny(param.ty)
               /\ Assignable(param.ty, Keyword("void"))
               /\ index = Len(ps)
            THEN [st1 EXCEPT !.min = st1.min - 1]
            ELSE st1
    IN  CASE param.pat.k = "Rest" /\ Normalize(param.ty).k = "Tuple" ->
                [st EXCEPT !.max = dec(MaxAfterTupleElems(Normalize(param.ty).elems, st.max))]
          [] param.pat.k = "Rest" ->
                void_check([st EXCEPT !.max = None])
          [] IsThisPat(param.pat) ->
                [st EXCEPT !.max = dec(st.max)]
          [] OTHER -> void_check(st)

RECURSIVE ArgCountLoop(_, _, _)
ArgCountLoop(st, ps, index) ==
    IF index > Len(ps) THEN st
    ELSE ArgCountLoop(ArgCountStep(st, ps, index), ps, index + 1)

Ok == [ok |-> TRUE, kind |-> "", min |-> 0, max |-> None, span |-> <<0, 0>>]
Err(kind, min, max, span) == [ok |-> FALSE, kind |-> kind, min |-> min, max |-> max, span |-> span]

CallSpan == <<0, 0>>

\* The tail of validate_arg_count with the upper-bound test `args.len() <= max`
\* written as `args.len() < max`.
ArgCountDecideStrict(min_param, max_param, as, iife) ==
    IF \E i \in 1..Len(as) : as[i].spread THEN Ok
    ELSE IF min_param <= Len(as) /\ (max_param = None \/ Len(as) < max_param[1]) THEN Ok
    ELSE IF iife /\ max_param # None /\ Len(as) <= max_param[1] THEN Ok
    ELSE IF max_param = None THEN Err("ExpectedAtLeastNArgsButGotM", min_param, None, CallSpan)
    ELSE Err("ExpectedNArgsButGotM", min_param, max_param,
             IF min_param >= 0 /\ min_param < Len(as) THEN <<min_param + 1, Len(as)>> ELSE CallSpan)

\* The tail of validate_arg_count without the leniency for IIFE calls.
ArgCountDecideWithoutIife(min_param, max_param, as, iife) ==
    IF \E i \in 1..Len(as) : as[i].spread THEN Ok
    ELSE IF min_param <= Len(as) /\ (max_param = None \/ Len(as) <= max_param[1]) THEN Ok
    ELSE IF max_param = None THEN Err("ExpectedAtLeastNArgsButGotM", min_param, None, CallSpan)
    ELSE Err("ExpectedNArgsButGotM", min_param, max_param,
             IF min_param >= 0 /\ min_param < Len(as) THEN <<min_param + 1, Len(as)>> ELSE CallSpan)

\* has_spread, the comparison with min_param and max_param, the IIFE
\* leniency and the choice of the error.  Spans are pairs <<first, last>> of
\* argument positions; CallSpan is the span of the whole call.
ArgCountDecide(min_param, max_param, as, iife) ==
    IF \E i \in 1..Len(as) : as[i].spread THEN Ok
    ELSE IF min_param <= Len(as) /\ (max_param = None \/ Len(as) <= max_param[1]) THEN Ok
    ELSE IF iife /\ max_param # None /\ Len(as) <= max_param[1] THEN Ok
    ELSE IF max_param = None THEN Err("ExpectedAtLeastNArgsButGotM", min_param, None, CallSpan)
    ELSE Err("ExpectedNArgsButGotM", min_param, max_param,
             IF min_param >= 0 /\ min_param < Len(as) THEN <<min_param + 1, Len(as)>> ELSE CallSpan)

\* A rest parameter that always yields a bounded maximum.
validate_arg_count_bounded_rest(ps, as, iife) ==
    LET st == ArgCountLoop([min |-> SumSeq([i \in 1..Len(ps) |-> count_required_pat(ps[i].pat)]),
                            max |-> Some(Len(ps))], ps, 1)
    IN  ArgCountDecide(st.min, IF st.max = None THEN Some(Len(ps)) ELSE st.max, as, iife)

\* min_param and max_param after the loop over the parameters, as integers:
\* min is below zero when `min_param -= 1` was applied to zero.
ArgCountBoundsAfterLoop(ps) ==
    ArgCountLoop([min |-> SumSeq([i \in 1..Len(ps) |-> count_required_pat(ps[i].pat)]),
                  max |-> Some(Len(ps))], ps, 1)

\* usize::MAX, held at the largest integer the model checker represents; the
\* model compares it with argument counts only.
UsizeMax == 2147483647

\* The value of a usize after a subtraction that wrapped (a build without
\* overflow checks).
WrapUsize(n) == IF n < 0 THEN UsizeMax + (n + 1) ELSE n

\* `min_param -= 1` was applied to zero: a build with overflow checks panics
\* there (attempt to subtract with overflow).
ArgCountUnderflows(ps) == ArgCountBoundsAfterLoop(ps).min < 0

validate_arg_count(ps, as, iife) ==
    LET st == ArgCountBoundsAfterLoop(ps)
    IN  ArgCountDecide(WrapUsize(st.min), st.max, as, iife)

\* Parameters a signature can declare.
ParamTypes == {Keyword("number"), Keyword("string"), Keyword("void"), Keyword("any")}

PlainParams ==
    {FnParam(IdentPat("a", opt), ty, ~opt) : opt \in BOOLEAN, ty \in ParamTypes}

RestParams ==
    {FnParam(RestPat(TRUE, <<>>), ty, FALSE) :
        ty \in {Array("number"), Array("any"),
                Tuple(<<Keyword("string"), Keyword("number")>>),
                Tuple(<<Keyword("string"), OptionalTy("number")>>),
                Tuple(<<Keyword("string"), RestTy("number")>>)}}

ThisParams == {FnParam(ThisPat, Keyword("any"), TRUE)}

\* Last parameters that count_required_pat counts as 0, marked required and
\* with a type that accepts void: ...rest: unknown, a default-valued and an
\* invalid pattern of type void.
RequiredUncountedParams ==
    {FnParam(RestPat(TRUE, <<>>), Keyword("unknown"), TRUE),
     FnParam(AssignPat, Keyword("void"), TRUE),
     FnParam(InvalidPat, Keyword("void"), TRUE)}

\* Such a parameter alone or after (a: number).
UncountedTailSignatures ==
    {front \o <<p>> : front \in {<<>>, <<FnParam(IdentPat("a", FALSE), Keyword("number"), TRUE)>>},
                      p \in RequiredUncountedParams}

\* `this` comes first, a rest parameter comes last, and no required
\* parameter follows an optional one.
WellFormedParams(ps) ==
    /\ \A i \in 1..Len(ps) : IsThisPat(ps[i].pat) => i = 1
    /\ \A i \in 1..Len(ps) : ps[i].pat.k = "Rest" => i = Len(ps)
    /\ \A i \in 1..Len(ps) : \A j \in 1..Len(ps) :
          (i < j /\ ps[i].pat.k = "Ident" /\ ps[i].pat.optional /\ ps[j].pat.k = "Ident")
              => ps[j].pat.optional

Signatures ==
    {ps \in SeqsUpTo(PlainParams \cup RestParams \cup ThisParams, MaxParams) : WellFormedParams(ps)}

\* An argument expression: only its spread marker matters to the arity check.
Arg(spread) == [spread |-> spread]


\* ------------------------------------------------------------------------
\* validate_arg_types
\* ------------------------------------------------------------------------
\* TypeOrSpread: span is the position of the argument at the call site.
TypeOrSpread(span, spread, ty) == [span |-> span, spread |-> spread, ty |-> ty]

Diag(kind, span) == [kind |-> kind, span |-> span]

\* get_iterator_element_type(ty), as an Option: None when the type has no
\* [Symbol.iterator].
IteratorElementType(ty) ==
    CASE ty.k = "Array" -> Some(ty.elem_type)
      [] IsAny(ty) -> Some(ty)
      [] ty.k = "Keyword" /\ ty.kind = "string" -> Some(ty)
      [] OTHER -> None

\* rest_idx: position of the rest parameter minus the number of optional
\* parameters before it.
RECURSIVE RestIdxFrom(_, _, _, _)
RestIdxFrom(ps, idx, shift, rest_idx) ==
    IF idx > Len(ps) THEN rest_idx
    ELSE IF ps[idx].pat.k = "Rest"
         THEN RestIdxFrom(ps, idx + 1, shift, Some((idx - 1) - shift))
         ELSE RestIdxFrom(ps, idx + 1, IF ~ps[idx].required THEN shift + 1 ELSE shift, rest_idx)

\* report_err!: push the diagnostic; with is_generic the function returns.
\* st = [diags |-> reported so far, returned |-> the function has returned]
ReportErr(st, d, generic) ==
    [st EXCEPT !.diags = Append(@, d), !.returned = generic]

\* The first loop: spread arguments placed before the rest parameter.
RECURSIVE SpreadBeforeRest(_, _, _, _, _)
SpreadBeforeRest(st, as, idx, rest_idx, generic) ==
    IF st.returned \/ idx > Len(as) THEN st
    ELSE IF as[idx].spread /\ rest_idx # None /\ idx - 1 < rest_idx[1]
         THEN SpreadBeforeRest(
                ReportErr(st,
                    IF Normalize(as[idx].ty).k = "Tuple"
                    THEN Diag("ExpectedAtLeastNArgsButGotMOrMore", as[idx].span)
                    ELSE Diag("SpreadMustBeTupleOrPassedToRest", as[idx].span),
                    generic),
                as, idx + 1, rest_idx, generic)
         ELSE SpreadBeforeRest(st, as, idx + 1, rest_idx, generic)

\* `for param_elem in param_ty.elems.iter().skip(1)`: every further tuple
\* element takes the next argument from args_iter.  Returns st with ai, the
\* number of arguments args_iter has yielded.
RECURSIVE TupleRestElems(_, _, _, _, _)
TupleRestElems(st, elems, ei, as, generic) ==
    IF st.returned \/ ei > Len(elems) \/ st.ai >= Len(as) THEN st
    ELSE LET arg == as[st.ai + 1]
             st1 == [st EXCEPT !.ai = @ + 1]
         IN  TupleRestElems(
                IF Assignable(elems[ei], arg.ty) THEN st1
                ELSE ReportErr(st1, Diag("WrongArgType", arg.span), generic),
                elems, ei + 1, as, generic)

\* The body of the main loop for one (param, arg) pair; arg has already been
\* taken from args_iter.
ArgTypesStep(st, param, arg, as, generic) ==
    LET param_ty == Normalize(param.ty)
        \* the code after the `if let RPat::Rest` block
        default_check ==
            IF arg.spread
            THEN LET elem == IteratorElementType(arg.ty)
                 IN  IF elem # None /\ Assignable(param.ty, elem[1]) THEN st
                     ELSE IF elem = None
                          THEN ReportErr(st, Diag("SpreadMustBeTupleOrPassedToRest", arg.span), generic)
                          ELSE IF Assignable(param.ty, arg.ty) THEN st
                               ELSE ReportErr(st, Diag("WrongArgType", arg.span), generic)
            ELSE IF Assignable(param.ty, arg.ty) THEN st
                 ELSE ReportErr(st, Diag("WrongArgType", arg.span), generic)
    IN  IF param.pat.k = "Rest"
        THEN IF ~arg.spread /\ param_ty.k = "Tuple" /\ param_ty.elems # <<>>
             THEN IF ~Assignable(param_ty.elems[1], arg.ty)
                  THEN \* report_err!(err); continue;  -- the next iteration of `loop`
                       ReportErr(st, Diag("WrongArgType", arg.span), generic)
                  ELSE TupleRestElems(st, param_ty.elems, 2, as, generic)
             ELSE IF arg.spread /\ Assignable(param.ty, arg.ty) THEN st
             ELSE IF param_ty.k = "Array"
                  THEN IF Assignable(param_ty.elem_type, arg.ty) THEN st
                       ELSE ReportErr(st, Diag("WrongArgType", arg.span), generic)
                  ELSE IF Assignable(param.ty, arg.ty) THEN st
                       ELSE default_check
        ELSE default_check

\* `loop { let param = params_iter.next(); let arg = args_iter.next(); ... }`
\* ps is params without the `this` parameter; pi and st.ai count what the
\* two iterators have yielded.
RECURSIVE ArgTypesLoop(_, _, _, _, _)
ArgTypesLoop(st, ps, pi, as, generic) ==
    IF st.returned \/ pi >= Len(ps) \/ st.ai >= Len(as) THEN st
    ELSE LET arg == as[st.ai + 1]
             st1 == [st EXCEPT !.ai = @ + 1]
         IN  ArgTypesLoop(ArgTypesStep(st1, ps[pi + 1], arg, as, generic),
                          ps, pi + 1, as, generic)

\* params.iter().filter(|param| !this)
WithoutThis(ps) == SelectSeq(ps, LAMBDA p : ~IsThisPat(p.pat))

\* The diagnostics validate_arg_types adds to the storage, in order.
validate_arg_types(ps, as, generic) ==
    LET st0 == SpreadBeforeRest([diags |-> <<>>, returned |-> FALSE, ai |-> 0],
                                as, 1, RestIdxFrom(ps, 1, 0, None), generic)
    IN  ArgTypesLoop(st0, WithoutThis(ps), 0, as, generic).diags

\* ------------------------------------------------------------------------
\* Callee types and candidate extraction
\* ------------------------------------------------------------------------
\* A named object type such as `A` in `(x: number) => A`.
Named(name) == [k |-> "Named", name |-> name]
\* Type::Class: an instance of the class definition called name.
ClassInstance(name) == [k |-> "Class", def |-> name]

\* CallCandidate { type_params, params, ret_ty }; type_params is an
\* Option<Vec<TypeParam>> holding the names of the type parameters.
CallCandidate(type_params, ps, ret_ty) == [type_params |-> type_params, params |-> ps, ret_ty |-> ret_ty]

FunctionTy(sig) == [k |-> "Function", sig |-> sig]
ConstructorTy(sig) == [k |-> "Constructor", sig |-> sig]
\* members: TypeElement::Call, TypeElement::Constructor or TypeElement::Method
TypeElement(k, sig) == [k |-> k, sig |-> sig]
TypeLit(members) == [k |-> "TypeLit", members |-> members]
\* extends: the names of the parent interfaces; members: the body
Interface(name, extends, members) ==
    [k |-> "Interface", name |-> name, extends |-> extends, members |-> members]
Union(types) == [k |-> "Union", types |-> types]
Intersection(types) == [k |-> "Intersection", types |-> types]
\* constructors: the ClassMember::Constructor members in declaration order,
\* each with type_params, params and an Option ret_ty;
\* methods: the ClassMember::Method members whose key is the called property
ClassDef(name, is_abstract, constructors, methods, super_class) ==
    [k |-> "ClassDef", name |-> name, is_abstract |-> is_abstract,
     constructors |-> constructors, methods |-> methods, super_class |-> super_class]

RECURSIVE Flatten(_)
Flatten(ss) == IF ss = <<>> THEN <<>> ELSE Head(ss) \o Flatten(Tail(ss))

\* A class definition that contributes no candidate of its own.
ImplicitConstructorMissing(cls) == <<>>

\* The candidate pushed when the class and its super class give none: no
\* type parameters, no parameters, the instance type of the class.
ImplicitConstructor(cls) == <<CallCandidate(None, <<>>, ClassInstance(cls.name))>>

RECURSIVE extract_callee_candidates(_, _)
extract_callee_candidates(kind, callee) ==
    LET ty == Normalize(callee)
    IN  CASE ty.k \in {"Intersection", "Union"} ->
                Flatten([i \in 1..Len(ty.types) |-> extract_callee_candidates(kind, ty.types[i])])
          [] ty.k = "Constructor" /\ kind = "New" -> <<ty.sig>>
          [] ty.k = "Function" /\ kind = "Call" -> <<ty.sig>>
          \* an interface is converted to a type literal first
          [] ty.k \in {"TypeLit", "Interface"} ->
                LET wanted == IF kind = "Call" THEN "Call" ELSE "Constructor"
                    ms == SelectSeq(ty.members, LAMBDA m : m.k = wanted)
                IN  [i \in 1..Len(ms) |-> ms[i].sig]
          [] ty.k = "ClassDef" ->
                IF kind = "Call" THEN <<>>
                ELSE LET own == [i \in 1..Len(ty.constructors) |->
                                    CallCandidate(ty.constructors[i].type_params,
                                                  ty.constructors[i].params,
                                                  IF ty.constructors[i].ret_ty # None
                                                  THEN ty.constructors[i].ret_ty[1]
                                                  ELSE ClassInstance(ty.name))]
                         inherited ==
                            IF own = <<>> /\ ty.super_class # None
                            THEN extract_callee_candidates(kind, ty.super_class[1])
                            ELSE own
                     IN  IF inherited = <<>>
                         THEN ImplicitConstructor(ty)
                         ELSE inherited
          [] OTHER -> <<>>

\* ------------------------------------------------------------------------
\* spread_args
\* ------------------------------------------------------------------------
\* A spread argument left as it is.
SpreadOneUnexpanded(arg) == <<arg>>

\* One entry of arg_types after spread handling.
SpreadOne(arg) ==
    LET arg_ty == Normalize(arg.ty)
    IN  IF ~arg.spread THEN <<arg>>
        ELSE CASE arg_ty.k = "Tuple" ->
                    [i \in 1..Len(arg_ty.elems) |-> TypeOrSpread(arg.span, FALSE, arg_ty.elems[i])]
               [] IsAny(arg_ty) -> <<TypeOrSpread(arg.span, FALSE, arg_ty)>>
               [] arg_ty.k = "Array" -> <<arg>>
               [] OTHER -> <<TypeOrSpread(arg.span, TRUE,
                                IF IteratorElementType(arg_ty) # None
                                THEN IteratorElementType(arg_ty)[1] ELSE arg_ty)>>

\* spread_args: [ok, types, unknown]; unknown is the value written to
\* scope.is_call_arg_count_unknown (it is only ever set, never cleared here).
spread_args(arg_types) ==
    LET spreads == {i \in 1..Len(arg_types) : arg_types[i].spread}
        failing == {i \in spreads : /\ Normalize(arg_types[i].ty).k \notin {"Tuple", "Array"}
                                    /\ ~IsAny(arg_types[i].ty)
                                    /\ IteratorElementType(arg_types[i].ty) = None}
    IN  [ok |-> failing = {},
         types |-> Flatten([i \in 1..Len(arg_types) |-> SpreadOne(arg_types[i])]),
         unknown |-> \E i \in spreads : Normalize(arg_types[i].ty).k # "Tuple"]

\* ------------------------------------------------------------------------
\* check_call_args
\* ------------------------------------------------------------------------
\* validate_type_args_count(type_params, type_args).is_ok()
validate_type_args_count(type_params, type_args) ==
    (type_params # None /\ type_args # None) => Len(type_params[1]) = Len(type_args[1])

is_subtype_in_fn_call(arg, param) ==
    IF arg = param THEN TRUE
    ELSE IF IsAny(param) THEN TRUE
    ELSE IF IsAny(arg) THEN FALSE
    ELSE Assignable(arg, param)

\* `for (arg, param) in arg_types.iter().zip(params)`: "mismatch" when an
\* assignment fails, else whether every pair seen was exact.
RECURSIVE CheckArgPairs(_, _, _, _)
CheckArgPairs(arg_types, ps, i, exact) ==
    IF i > Len(arg_types) \/ i > Len(ps) THEN (IF exact THEN "exact" ELSE "inexact")
    ELSE LET pty == Normalize(ps[i].ty)
         IN  IF pty.k = "Param" THEN CheckArgPairs(arg_types, ps, i + 1, exact)
             ELSE IF ~Assignable(ps[i].ty, arg_types[i].ty) THEN "mismatch"
             ELSE CheckArgPairs(arg_types, ps, i + 1,
                                exact /\ is_subtype_in_fn_call(arg_types[i].ty, ps[i].ty))

check_call_args(type_params, ps, type_args, as, arg_types, iife, count_unknown) ==
    IF ~validate_type_args_count(type_params, type_args) THEN "WrongArgCount"
    ELSE IF ~validate_arg_count(ps, as, iife).ok THEN "WrongArgCount"
    ELSE LET pairs == CheckArgPairs(arg_types, ps, 1, TRUE)
         IN  IF pairs = "mismatch" THEN "ArgTypeMismatch"
             ELSE IF count_unknown \/ pairs = "inexact" THEN "MayBe"
             ELSE "Exact"

\* ------------------------------------------------------------------------
\* Generic inference and expansion (the unifier and the type algebra)
\* ------------------------------------------------------------------------
\* A substitution is a function from type-parameter names to types.
EmptyMap == [n \in {} |-> Keyword("unknown")]
MapInsert(map, name, ty) == [n \in DOMAIN map \cup {name} |-> IF n = name THEN ty ELSE map[n]]

\* expand_type_params(map, ty)
expand_type_params(map, ty) ==
    IF ty.k = "Param" /\ ty.name \in DOMAIN map THEN map[ty.name] ELSE ty

ExpandParams(map, ps) == [i \in 1..Len(ps) |-> [ps[i] EXCEPT !.ty = expand_type_params(map, @)]]

\* infer_type_with_types(type_params, ret_ty, type_ann): what the annotation
\* says about the type parameters of the return type.
InferFromReturnType(type_params, ret_ty, type_ann) ==
    IF ret_ty.k = "Param" /\ \E i \in 1..Len(type_params) : type_params[i] = ret_ty.name
    THEN MapInsert(EmptyMap, ret_ty.name, type_ann)
    ELSE EmptyMap

\* infer_arg_types: [types |-> substitution, errored |-> the names that
\* failed to resolve].  Explicit type arguments bind the parameters in
\* order; otherwise a parameter is solved by the first argument whose formal
\* parameter has that type parameter as its type.
infer_arg_types(type_args, type_params, ps, as) ==
    LET names == {type_params[i] : i \in 1..Len(type_params)}
        explicit(n) == {i \in 1..Len(type_params) : type_params[i] = n /\ type_args # None /\ i <= Len(type_args[1])}
        binders(n) == {i \in 1..Len(ps) : i <= Len(as) /\ ps[i].ty = TypeParamTy(n)}
        solved == {n \in names : explicit(n) # {} \/ (type_args = None /\ binders(n) # {})}
        first(S) == CHOOSE i \in S : \A j \in S : i <= j
    IN  [types |-> [n \in solved |->
                        IF explicit(n) # {} THEN type_args[1][first(explicit(n))]
                        ELSE as[first(binders(n))].ty],
         errored |-> names \ solved]

\* ------------------------------------------------------------------------
\* get_return_type
\* ------------------------------------------------------------------------
NoReeval == "NoReeval"

\* The re-invocation without the test of ctx.reevaluating_call_or_new.
ShouldReevaluateUnguarded(type_params, reevaluating, expr) ==
    type_params # None /\ expr \in {"Call", "New"}

\* get_return_type re-invokes the validator of the call or new expression.
ShouldReevaluate(type_params, reevaluating, expr) ==
    type_params # None /\ ~reevaluating /\ expr \in {"Call", "New"}

\* spread_arg_types as get_return_type recomputes it from new_args on the
\* generic path: only spread tuples are expanded.
RespreadOne(arg) ==
    IF arg.spread /\ Normalize(arg.ty).k = "Tuple"
    THEN [i \in 1..Len(Normalize(arg.ty).elems) |-> TypeOrSpread(arg.span, FALSE, Normalize(arg.ty).elems[i])]
    ELSE <<arg>>

RespreadArgs(new_args) == Flatten([i \in 1..Len(new_args) |-> RespreadOne(new_args[i])])

\* `for id in &inferred.errored { inferred.types.insert(id, unknown) }` left out.
InsertErroredSkipped(types, errored) == types

\* `for id in &inferred.errored { inferred.types.insert(id, unknown) }`
InsertErrored(types, errored) ==
    [n \in DOMAIN types \cup errored |-> IF n \in errored THEN Keyword("unknown") ELSE types[n]]

\* is_instantiating_class: every type parameter missing from the map
\* becomes unknown.
InsertMissing(types, type_params) ==
    [n \in DOMAIN types \cup {type_params[i] : i \in 1..Len(type_params)} |->
        IF n \in DOMAIN types THEN types[n] ELSE Keyword("unknown")]

\* The diagnostics of the two checks at the top of get_return_type.
CountDiags(type_params, ps, type_args, as, iife) ==
    LET res == validate_arg_count(ps, as, iife)
    IN  (IF res.ok THEN <<>> ELSE <<Diag(res.kind, res.span)>>)
        \o (IF validate_type_args_count(type_params, type_args) THEN <<>>
            ELSE <<Diag("TypeParameterCountMismatch", CallSpan)>>)

\* One execution of get_return_type.  c is the chosen signature; cx holds
\* the call site: args, arg_types, spread_arg_types, type_args, type_ann (an
\* Option), kind, expr (the ReevalMode) and the ctx flags is_calling_iife,
\* reevaluating_call_or_new and is_instantiating_class.
\* The result is [reeval, ty, diags]: reeval means the function returned the
\* result of re-invoking the expression's validator (ty is not used then).
get_return_type(c, cx) ==
    LET count_diags == CountDiags(c.type_params, c.params, cx.type_args, cx.args, cx.is_calling_iife)
    IN  IF c.type_params = None
        THEN [reeval |-> FALSE,
              ty |-> c.ret_ty,
              diags |-> count_diags \o validate_arg_types(c.params, cx.spread_arg_types, FALSE)]
        ELSE LET type_params == c.type_params[1]
                 from_ret == IF cx.reevaluating_call_or_new \/ cx.type_ann = None THEN EmptyMap
                             ELSE InferFromReturnType(type_params, c.ret_ty, cx.type_ann[1])
                 ps == ExpandParams(from_ret, c.params)
                 inferred == infer_arg_types(cx.type_args, type_params, ps, cx.spread_arg_types)
                 expanded_param_types == ExpandParams(inferred.types, ps)
             IN  IF ShouldReevaluate(c.type_params, cx.reevaluating_call_or_new, cx.expr)
                 THEN [reeval |-> TRUE, ty |-> c.ret_ty, diags |-> count_diags]
                 ELSE LET types1 == IF cx.is_instantiating_class
                                    THEN InsertMissing(inferred.types, type_params)
                                    ELSE inferred.types
                          types2 == InsertErrored(types1, inferred.errored)
                      IN  [reeval |-> FALSE,
                           ty |-> expand_type_params(types2, c.ret_ty),
                           diags |-> count_diags
                                     \o validate_arg_types(expanded_param_types,
                                                           RespreadArgs(cx.arg_types), TRUE)]

\* ------------------------------------------------------------------------
\* select_and_invoke and the call sites that dispatch to it
\* ------------------------------------------------------------------------
\* What a call site yields: status is "Ok" (a type), "Err" (an error kind) or
\* "None" (select_and_invoke had no candidate); reeval: get_return_type
\* handed over to the re-invoked validator; diags: what was reported to the
\* storage; candidates and callable: the list the site selected from and that
\* list after the sort, as [c |-> position in candidates, res |-> ArgCheckResult].
\* A site at which a problem get_return_type found is raised as the error of
\* the call instead of being reported.
ReturnedUnlessReported(r, cands, sorted) ==
    IF r.diags # <<>>
    THEN [status |-> "Err", ty |-> None, err |-> r.diags[1].kind,
          reeval |-> FALSE, diags |-> <<>>, candidates |-> cands, callable |-> sorted]
    ELSE [status |-> "Ok", ty |-> IF r.reeval THEN None ELSE Some(r.ty), err |-> "",
          reeval |-> r.reeval, diags |-> r.diags, candidates |-> cands, callable |-> sorted]

Returned(r, cands, sorted) ==
    [status |-> "Ok", ty |-> IF r.reeval THEN None ELSE Some(r.ty), err |-> "",
     reeval |-> r.reeval, diags |-> r.diags, candidates |-> cands, callable |-> sorted]

Failed(kind, cands, sorted) ==
    [status |-> "Err", ty |-> None, err |-> kind,
     reeval |-> FALSE, diags |-> <<>>, candidates |-> cands, callable |-> sorted]

NoCandidate ==
    [status |-> "None", ty |-> None, err |-> "",
     reeval |-> FALSE, diags |-> <<>>, candidates |-> <<>>, callable |-> <<>>]

\* A sort_by_key that places an element before the earlier elements with an
\* equal key.
SortCallableTiesReversed(res) ==
    LET n == Len(res)
    IN  StableSortOrder([i \in 1..n |-> ArgCheckResultOrd(res[i]) * (n + 1) + (n - i)], n)

\* callable.sort_by_key(|(_, res)| *res): the positions of the candidates in
\* sorted order.
SortCallable(res) ==
    StableSortOrder([i \in 1..Len(res) |-> ArgCheckResultOrd(res[i])], Len(res))

\* candidates.iter().map(|c| check_call_args(..)) followed by the sort.
Classify(cands, cx) ==
    [i \in 1..Len(cands) |->
        check_call_args(cands[i].type_params, cands[i].params, cx.type_args, cx.args,
                        cx.arg_types, cx.is_calling_iife, cx.is_call_arg_count_unknown)]

\* SelectOpts::default()
SelectOpts == [skip_check_for_overloads |-> FALSE]

\* The overload check matching WrongArgCount only.
AllCandidatesWrongArgCount(res) ==
    /\ Len(res) > 1
    /\ \A i \in 1..Len(res) : res[i] = "WrongArgCount"

\* `callable.len() > 1 && callable.iter().all(|(_, res)| matches!(res,
\* WrongArgCount | ArgTypeMismatch))`
AllCandidatesFailed(res) ==
    /\ Len(res) > 1
    /\ \A i \in 1..Len(res) : res[i] \in {"WrongArgCount", "ArgTypeMismatch"}

select_and_invoke(cands, cx, opts) ==
    LET res == Classify(cands, cx)
        order == SortCallable(res)
        sorted == [i \in 1..Len(order) |-> [c |-> order[i], res |-> res[order[i]]]]
    IN  IF cands = <<>> THEN NoCandidate
        ELSE IF ~opts.skip_check_for_overloads /\ AllCandidatesFailed(res)
             THEN Failed("NoMatchingOverload", cands, sorted)
             ELSE Returned(get_return_type(cands[order[1]], cx), cands, sorted)

NoSignature(kind) == IF kind = "Call" THEN "NoCallSignature" ELSE "NoNewSignature"

\* call_type_element: the call or construct signatures of an interface body
\* or a type literal.
call_type_element(members, kind, cx) ==
    LET wanted == IF kind = "Call" THEN "Call" ELSE "Constructor"
        ms == SelectSeq(members, LAMBDA m : m.k = wanted)
        out == select_and_invoke([i \in 1..Len(ms) |-> ms[i].sig], cx, SelectOpts)
    IN  IF out.status = "None" THEN Failed(NoSignature(kind), <<>>, <<>>) ELSE out

\* call_property_of_type_elements: members holds the elements whose key is
\* the called property; `interface Object` has no method of that name.
call_property_of_type_elements(members, kind, cx) ==
    LET ms == SelectSeq(members, LAMBDA m : m.k = "Method" /\ kind = "Call")
        out == select_and_invoke([i \in 1..Len(ms) |-> ms[i].sig], cx, SelectOpts)
    IN  IF out.status = "None" THEN Failed("NoSuchProperty", <<>>, <<>>) ELSE out

\* call_property_of_class for a class without a super class: c.methods are
\* the methods whose key is the called property.
call_property_of_class(c, cx) == select_and_invoke(c.methods, cx, SelectOpts)

get_best_return_type(callee_ty, kind, cx) ==
    LET out == select_and_invoke(extract_callee_candidates(kind, callee_ty), cx,
                                 [skip_check_for_overloads |-> TRUE])
    IN  IF out.status # "None" THEN out
        ELSE IF IsAny(callee_ty)
             THEN Returned([reeval |-> FALSE, ty |-> Keyword("any"), diags |-> <<>>], <<>>, <<>>)
             ELSE IF Normalize(callee_ty).k = "ClassDef" /\ kind = "New"
                  THEN Returned(get_return_type(CallCandidate(None, <<>>, callee_ty), cx), <<>>, <<>>)
                  ELSE Failed(NoSignature(kind), <<>>, <<>>)

\* The ClassDef arm of extract for `new`: the constructors are sorted by their
\* classification and the first one is used.
ExtractNewClass(cls, cx) ==
    LET ctors == [i \in 1..Len(cls.constructors) |->
                    CallCandidate(cls.constructors[i].type_params, cls.constructors[i].params,
                                  ClassInstance(cls.name))]
        res == Classify(ctors, cx)
        order == SortCallable(res)
        sorted == [i \in 1..Len(order) |-> [c |-> order[i], res |-> res[order[i]]]]
    IN  Returned(get_return_type(ctors[order[1]], cx), ctors, sorted)

\* `new` on an abstract class that raises the error instead of reporting it.
InstantiateAbstractClassFails(cls, disallow_invoking_implicit_constructors) ==
    IF disallow_invoking_implicit_constructors
    THEN Failed("NoNewSignature", <<>>, <<>>)
    ELSE Failed("CannotCreateInstanceOfAbstractClass", <<>>, <<>>)

\* `if cls.is_abstract { .. }` in the ClassDef arm of extract for `new`.
InstantiateAbstractClass(cls, disallow_invoking_implicit_constructors) ==
    IF disallow_invoking_implicit_constructors
    THEN Failed("NoNewSignature", <<>>, <<>>)
    ELSE Returned([reeval |-> FALSE, ty |-> ClassInstance(cls.name),
                   diags |-> <<Diag("CannotCreateInstanceOfAbstractClass", CallSpan)>>],
                  <<>>, <<>>)

RECURSIVE extract(_, _, _, _)
extract(callee_ty, kind, cx, disallow_invoking_implicit_constructors) ==
    LET ty == Normalize(callee_ty)
        implicit == Returned(get_return_type(CallCandidate(None, <<>>, ClassInstance(ty.name)),
                                             [cx EXCEPT !.is_instantiating_class = TRUE]),
                             <<>>, <<>>)
        from_super == extract(ty.super_class[1], kind, cx, TRUE)
    IN  IF kind = "New" /\ ty.k = "ClassDef"
        THEN IF ty.is_abstract
             THEN InstantiateAbstractClass(ty, disallow_invoking_implicit_constructors)
             ELSE IF ty.constructors # <<>> THEN ExtractNewClass(ty, cx)
             ELSE IF ty.super_class # None /\ from_super.status = "Ok" THEN from_super
             ELSE IF disallow_invoking_implicit_constructors
                  THEN Failed("NoNewSignature", <<>>, <<>>)
                  ELSE IF ty.super_class # None
                       THEN [implicit EXCEPT !.diags = from_super.diags \o @]
                       ELSE implicit
        ELSE IF kind = "New" /\ ty.k = "Constructor"
        THEN Returned(get_return_type(ty.sig, cx), <<>>, <<>>)
        ELSE IF kind = "New" /\ ty.k = "Intersection"
        THEN Returned([reeval |-> FALSE, ty |-> [k |-> "Instance", of |-> ty], diags |-> <<>>], <<>>, <<>>)
        ELSE IF IsAny(ty)
        THEN Returned([reeval |-> FALSE, ty |-> Keyword("any"), diags |-> <<>>], <<>>, <<>>)
        ELSE IF ty.k = "Keyword" /\ ty.kind = "unknown"
        THEN Failed("Unknown", <<>>, <<>>)
        ELSE IF ty.k = "Function"
        THEN Returned(get_return_type(IF kind = "Call" THEN ty.sig
                                      ELSE [ty.sig EXCEPT !.ret_ty = Keyword("any")], cx), <<>>, <<>>)
        ELSE IF HasConstraint(ty)
        THEN extract(ty.constraint, kind, cx, disallow_invoking_implicit_constructors)
        ELSE IF ty.k = "Union"
        THEN get_best_return_type(ty, kind, cx)
        ELSE IF ty.k \in {"Interface", "TypeLit"}
        THEN call_type_element(ty.members, kind, cx)
        ELSE IF ty.k = "Intersection"
        THEN LET out == select_and_invoke(
                            Flatten([i \in 1..Len(ty.types) |-> extract_callee_candidates(kind, ty.types[i])]),
                            cx, [skip_check_for_overloads |-> TRUE])
             IN  IF out.status = "None" THEN Failed(NoSignature(kind), <<>>, <<>>) ELSE out
        ELSE Failed(NoSignature(kind), <<>>, <<>>)

\* The call sites: "extract" is a call or new expression whose callee has the
\* type callee_ty; for the three property sites callee_ty is the type of the
\* object (type elements, class) or of the accessed property (fallback).
ResolveCall(at, callee_ty, kind, cx) ==
    CASE at = "extract" -> extract(callee_ty, kind, cx, FALSE)
      [] at = "call_property_of_type_elements" -> call_property_of_type_elements(callee_ty.members, kind, cx)
      [] at = "call_property_of_class" -> call_property_of_class(callee_ty, cx)
      [] at = "call_property" -> get_best_return_type(callee_ty, kind, cx)

\* ------------------------------------------------------------------------
\* narrow_with_predicate
\* ------------------------------------------------------------------------
\* Analyzer::extends(child, parent) = Some(true): the subtype relation of the
\* type algebra on the types of this model.
RECURSIVE Extends(_, _)
Extends(child, parent) ==
    IF child = parent THEN TRUE
    ELSE IF parent.k = "Keyword" /\ parent.kind \in {"any", "unknown"} THEN TRUE
    ELSE IF child.k = "Union" THEN \A i \in 1..Len(child.types) : Extends(child.types[i], parent)
    ELSE IF parent.k = "Union" THEN \E i \in 1..Len(parent.types) : Extends(child, parent.types[i])
    ELSE IF parent.k = "Intersection"
    THEN \A i \in 1..Len(parent.types) : Extends(child, parent.types[i])
    ELSE IF child.k = "Intersection"
    THEN \E i \in 1..Len(child.types) : Extends(child.types[i], parent)
    ELSE IF child.k = "Interface" /\ parent.k = "Interface"
    THEN \E i \in 1..Len(child.extends) : child.extends[i] = parent.name
    ELSE FALSE

\* Type::iter_union: the members of a union, or the type itself.
IterUnion(ty) == IF ty.k = "Union" THEN ty.types ELSE <<ty>>

\* Vec<Type>::dedup_type: the first occurrence of every type is kept.
RECURSIVE DedupType(_)
DedupType(types) ==
    IF types = <<>> THEN <<>>
    ELSE LET init == DedupType(SubSeq(types, 1, Len(types) - 1))
             last == types[Len(types)]
         IN  IF \E i \in 1..Len(init) : init[i] = last THEN init ELSE Append(init, last)

\* Type::new_union_without_dedup
NewUnionWithoutDedup(types) ==
    IF types = <<>> THEN Keyword("never")
    ELSE IF Len(types) = 1 THEN types[1]
    ELSE Union(types)

\* The loop over orig_ty.iter_union(): [types |-> new_types, upcasted |-> upcasted]
RECURSIVE NarrowUnionMembers(_, _, _)
NarrowUnionMembers(members, new_ty, acc) ==
    IF members = <<>> THEN acc
    ELSE LET ty == Head(members)
         IN  NarrowUnionMembers(Tail(members), new_ty,
                IF Extends(new_ty, ty)
                THEN [types |-> Append(acc.types, new_ty), upcasted |-> TRUE]
                ELSE IF Extends(ty, new_ty)
                     THEN [acc EXCEPT !.types = Append(@, ty)]
                     ELSE acc)

narrow_with_predicate(orig, new) ==
    LET orig_ty == Normalize(orig)
        new_ty == Normalize(new)
        use_simple_intersection ==
            /\ orig_ty.k = "Interface" /\ new_ty.k = "Interface"
            /\ orig_ty.extends = <<>> /\ new_ty.extends = <<>>
        members == NarrowUnionMembers(IterUnion(orig_ty), new_ty, [types |-> <<>>, upcasted |-> FALSE])
        new_types == IF ~members.upcasted /\ members.types = <<>> THEN <<new_ty>> ELSE members.types
    IN  IF use_simple_intersection THEN Intersection(<<orig_ty, new_ty>>)
        ELSE IF new_ty.k \in {"Keyword", "Lit"} THEN new_ty
        ELSE IF orig_ty.k \notin {"Union", "Interface"}
             THEN IF Extends(orig_ty, new_ty)
                  THEN IF orig_ty.k = "ClassDef" THEN ClassInstance(orig_ty.name) ELSE orig_ty
                  ELSE new_ty
             ELSE NewUnionWithoutDedup(DedupType(new_types))

\* store_call_fact_for_var: the type recorded by add_type_fact.
store_call_fact_for_var(previous, new_ty) ==
    IF Normalize(new_ty).k \in {"Keyword", "Lit"} THEN new_ty
    ELSE narrow_with_predicate(previous, new_ty)

\* ------------------------------------------------------------------------
\* Values of the variables an operation does not use
\* ------------------------------------------------------------------------
SortIdle == v = <<>> /\ expected = <<>>

ArityIdle ==
    /\ params = <<>>
    /\ args = <<>>
    /\ is_calling_iife = FALSE
    /\ arg_count_res = Ok

ArgTypesIdle ==
    /\ spread_arg_types = <<>>
    /\ is_generic = FALSE
    /\ storage = <<>>

NoResult == [status |-> "None", ty |-> None, err |-> ""]

NoCall ==
    [site |-> "", callee |-> Keyword("any"), kind |-> "Call", expr |-> NoReeval,
     type_args |-> None, arg_types |-> <<>>, type_ann |-> None]

CallIdle ==
    /\ call = NoCall
    /\ reevaluating_call_or_new = FALSE
    /\ candidates = <<>>
    /\ callable = <<>>
    /\ result = NoResult

ReevalIdle ==
    /\ exprs = <<>>
    /\ stack = <<>>
    /\ validated = <<>>
    /\ reevaluated = <<>>

NarrowIdle ==
    /\ previous_types = Keyword("any")
    /\ predicate_ty = Keyword("any")
    /\ narrowed = <<>>
    /\ call_facts = <<>>

SpreadIdle == is_call_arg_count_unknown = FALSE

ThisIdle ==
    /\ scope_this = None
    /\ this_call = [obj_type |-> Keyword("any"), kind |-> "Call", arg_ty |-> Keyword("any")]
    /\ this_inner = None
    /\ this_result = ""
    /\ this_err = ""
    /\ parents_tried = <<>>


\* ------------------------------------------------------------------------
\* test_arg_check_result_order, generalised to every vector
\* ------------------------------------------------------------------------
SortInit ==
    /\ pc = "sort_start"
    /\ v \in SeqsUpTo(ArgCheckResult, MaxSortLen)
    /\ expected = v
    /\ ArityIdle
    /\ ArgTypesIdle
    /\ CallIdle
    /\ ReevalIdle
    /\ NarrowIdle
    /\ ThisIdle
    /\ SpreadIdle

\* let expected = v.clone(); v.sort();
SortVec ==
    /\ pc = "sort_start"
    /\ v' = SortResults(v)
    /\ expected' = v
    /\ pc' = "sort_done"
    /\ UNCHANGED <<arityVars, argTypesVars, callVars, reevalVars, narrowVars, thisVars, spreadVars>>

SortNext == SortVec

SpecSort == SortInit /\ [][SortNext]_vars

\* Rank of the order the specification states: Exact < MayBe <
\* ArgTypeMismatch < WrongArgCount.
StatedRank(r) ==
    CASE r = "Exact" -> 0
      [] r = "MayBe" -> 1
      [] r = "ArgTypeMismatch" -> 2
      [] r = "WrongArgCount" -> 3

IsRankOrdered(s) == \A i \in 1..Len(s) : \A j \in 1..Len(s) : i < j => StatedRank(s[i]) <= StatedRank(s[j])

CountOf(s, r) == Cardinality({i \in 1..Len(s) : s[i] = r})

\* C1: after sorting, the vector lists all Exact, then MayBe, then
\* ArgTypeMismatch, then WrongArgCount, it holds the same classifications as
\* before, and a vector that was already in that order is unchanged.
C1_SortTotalOrder ==
    pc = "sort_done" =>
        /\ IsRankOrdered(v)
        /\ \A r \in ArgCheckResult : CountOf(v, r) = CountOf(expected, r)
        /\ (IsRankOrdered(expected) => v = expected)

C1_Witness ==
    /\ pc = "sort_done"
    /\ expected = <<"WrongArgCount", "MayBe", "ArgTypeMismatch", "Exact">>
    /\ v = <<"Exact", "MayBe", "ArgTypeMismatch", "WrongArgCount">>

\* ------------------------------------------------------------------------
\* validate_arg_count on every signature and argument list
\* ------------------------------------------------------------------------
ArityInit ==
    /\ pc = "arity_start"
    /\ params \in Signatures \cup UncountedTailSignatures
    /\ args \in SeqsUpTo({Arg(FALSE), Arg(TRUE)}, MaxArgs)
    /\ is_calling_iife \in BOOLEAN
    /\ arg_count_res = Ok
    /\ SortIdle
    /\ ArgTypesIdle
    /\ CallIdle
    /\ ReevalIdle
    /\ NarrowIdle
    /\ ThisIdle
    /\ SpreadIdle

ValidateArgCount ==
    /\ pc = "arity_start"
    /\ arg_count_res' = validate_arg_count(params, args, is_calling_iife)
    /\ pc' = "arity_done"
    /\ UNCHANGED <<params, args, is_calling_iife>>
    /\ UNCHANGED <<sortVars, argTypesVars, callVars, reevalVars, narrowVars, thisVars, spreadVars>>

\* The same call in a build with overflow checks when min_param underflows:
\* the thread panics and validate_arg_count returns nothing.
ValidateArgCountPanics ==
    /\ pc = "arity_start"
    /\ ArgCountUnderflows(params)
    /\ pc' = "arity_panicked"
    /\ UNCHANGED <<params, args, is_calling_iife, arg_count_res>>
    /\ UNCHANGED <<sortVars, argTypesVars, callVars, reevalVars, narrowVars, thisVars, spreadVars>>

ArityNext == ValidateArgCount \/ ValidateArgCountPanics

SpecArity == ArityInit /\ [][ArityNext]_vars

NoSpread(as) == \A i \in 1..Len(as) : ~as[i].spread

\* (a: T, b?: T)
IsReqOptSignature(ps) ==
    /\ Len(ps) = 2
    /\ ps[1].pat.k = "Ident" /\ ~IsThisPat(ps[1].pat) /\ ~ps[1].pat.optional /\ ps[1].required
    /\ ps[2].pat.k = "Ident" /\ ps[2].pat.optional /\ ~ps[2].required
    /\ ps[1].ty = ps[2].ty

\* C4: for (a: T, b?: T), without spread arguments and outside an IIFE call,
\* validate_arg_count succeeds exactly for 1 or 2 arguments and otherwise
\* fails with ExpectedNArgsButGotM{min: 1, max: 2}.
C4_ArityBoundaries ==
    (pc = "arity_done" /\ IsReqOptSignature(params) /\ NoSpread(args) /\ ~is_calling_iife) =>
        /\ arg_count_res.ok <=> Len(args) \in {1, 2}
        /\ ~arg_count_res.ok =>
              /\ arg_count_res.kind = "ExpectedNArgsButGotM"
              /\ arg_count_res.min = 1
              /\ arg_count_res.max = Some(2)

C4_Witness ==
    /\ pc = "arity_done"
    /\ IsReqOptSignature(params) /\ params[1].ty = Keyword("void")
    /\ NoSpread(args) /\ ~is_calling_iife
    /\ Len(args) = 3
    /\ ~arg_count_res.ok

\* (a: T, ...rest: T[])
IsUnboundedRestSignature(ps) ==
    /\ Len(ps) = 2
    /\ ps[1].pat.k = "Ident" /\ ~IsThisPat(ps[1].pat) /\ ~ps[1].pat.optional /\ ps[1].required
    /\ ps[2].pat.k = "Rest" /\ ps[2].ty.k = "Array"

\* C5: for (a: T, ...rest: T[]), without spread arguments, validate_arg_count
\* succeeds for every argument count >= 1 and fails for 0 arguments with
\* ExpectedAtLeastNArgsButGotM{min: 1}.
C5_UnboundedRest ==
    (pc = "arity_done" /\ IsUnboundedRestSignature(params) /\ NoSpread(args)) =>
        /\ arg_count_res.ok <=> Len(args) >= 1
        /\ ~arg_count_res.ok =>
              /\ arg_count_res.kind = "ExpectedAtLeastNArgsButGotM"
              /\ arg_count_res.min = 1

C5_Witness ==
    /\ pc = "arity_done"
    /\ IsUnboundedRestSignature(params)
    /\ NoSpread(args)
    /\ Len(args) = MaxArgs
    /\ arg_count_res.ok

\* ------------------------------------------------------------------------
\* validate_arg_types on every signature and argument list
\* ------------------------------------------------------------------------
CheckedParams ==
    {FnParam(IdentPat("a", opt), Keyword(kind), ~opt) : opt \in BOOLEAN, kind \in {"number", "string"}}
    \cup {FnParam(RestPat(TRUE, <<>>), ty, FALSE) :
            ty \in {Array("number"),
                    Tuple(<<Keyword("string"), Keyword("number")>>),
                    Tuple(<<Keyword("string")>>)}}
    \cup ThisParams

CheckedSignatures ==
    {ps \in SeqsUpTo(CheckedParams, MaxCheckedParams) : WellFormedParams(ps)}

ArgTypeChoices ==
    {[spread |-> FALSE, ty |-> Keyword(kind)] : kind \in {"number", "string", "any"}}
    \cup {[spread |-> TRUE, ty |-> Array("number")]}

ArgTypeLists ==
    {[i \in 1..Len(s) |-> TypeOrSpread(i, s[i].spread, s[i].ty)] :
        s \in SeqsUpTo(ArgTypeChoices, MaxCheckedArgs)}

ArgTypesInit ==
    /\ pc = "arg_types_start"
    /\ params \in CheckedSignatures
    /\ spread_arg_types \in ArgTypeLists
    /\ is_generic \in BOOLEAN
    /\ storage = <<>>
    /\ args = <<>>
    /\ is_calling_iife = FALSE
    /\ arg_count_res = Ok
    /\ SortIdle
    /\ CallIdle
    /\ ReevalIdle
    /\ NarrowIdle
    /\ ThisIdle
    /\ SpreadIdle

ValidateArgTypes ==
    /\ pc = "arg_types_start"
    /\ storage' = storage \o validate_arg_types(params, spread_arg_types, is_generic)
    /\ pc' = "arg_types_done"
    /\ UNCHANGED <<params, spread_arg_types, is_generic>>
    /\ UNCHANGED <<args, is_calling_iife, arg_count_res, sortVars, callVars, reevalVars, narrowVars, thisVars, spreadVars>>

ArgTypesNext == ValidateArgTypes

SpecArgTypes == ArgTypesInit /\ [][ArgTypesNext]_vars

WrongArgTypeSpans == {storage[i].span : i \in {j \in 1..Len(storage) : storage[j].kind = "WrongArgType"}}
WrongArgTypeCount == Cardinality({j \in 1..Len(storage) : storage[j].kind = "WrongArgType"})

\* (...args: [string, number]), not generic
IsStringNumberTupleRest ==
    /\ params = <<FnParam(RestPat(TRUE, <<>>), Tuple(<<Keyword("string"), Keyword("number")>>), FALSE)>>
    /\ ~is_generic

ArgTypesAre(kinds) ==
    /\ Len(spread_arg_types) = Len(kinds)
    /\ \A i \in 1..Len(kinds) :
          ~spread_arg_types[i].spread /\ spread_arg_types[i].ty = Keyword(kinds[i])

\* C6: for the non-generic signature (...args: [string, number]), f("x", 1)
\* records no WrongArgType and f(1, "x") records exactly two WrongArgType
\* diagnostics, one at the span of each argument.
C6_TupleRestDiagnostics ==
    (pc = "arg_types_done" /\ IsStringNumberTupleRest) =>
        /\ ArgTypesAre(<<"string", "number">>) => WrongArgTypeCount = 0
        /\ ArgTypesAre(<<"number", "string">>) =>
              (WrongArgTypeCount = 2 /\ WrongArgTypeSpans = {1, 2})

\* ------------------------------------------------------------------------
\* Resolution of one call, new or tagged-template expression
\* ------------------------------------------------------------------------
MaxCandidates == 2
MaxCallArgs == 1

OneParam(ty) == <<FnParam(IdentPat("x", FALSE), ty, TRUE)>>

\* (x: number) => A, (x: string) => B, (x: boolean) => B, <T>(x: T) => T
CallSignatures ==
    {CallCandidate(None, OneParam(Keyword("number")), Named("A")),
     CallCandidate(None, OneParam(Keyword("string")), Named("B")),
     CallCandidate(None, OneParam(Keyword("boolean")), Named("B")),
     CallCandidate(Some(<<"T">>), OneParam(TypeParamTy("T")), TypeParamTy("T"))}

CandidateLists == SeqsUpTo(CallSignatures, MaxCandidates) \ {<<>>}

NoDuplicates(s) == \A i \in 1..Len(s) : \A j \in 1..Len(s) : i # j => s[i] # s[j]

\* Constructor members: the return type is the instance type of the class.
Constructors(sigs) == [i \in 1..Len(sigs) |-> [sigs[i] EXCEPT !.ret_ty = None]]

\* The shapes of call sites with the signatures sigs.
CallSitesOf(sigs) ==
    {[site |-> "extract", kind |-> "Call",
      callee |-> TypeLit([i \in 1..Len(sigs) |-> TypeElement("Call", sigs[i])])],
     [site |-> "extract", kind |-> "Call",
      callee |-> Interface("I", <<>>, [i \in 1..Len(sigs) |-> TypeElement("Call", sigs[i])])],
     [site |-> "extract", kind |-> "New",
      callee |-> TypeLit([i \in 1..Len(sigs) |-> TypeElement("Constructor", sigs[i])])],
     [site |-> "extract", kind |-> "New",
      callee |-> ClassDef("C", FALSE, Constructors(sigs), <<>>, None)],
     [site |-> "extract", kind |-> "New",
      callee |-> ClassDef("C", TRUE, Constructors(sigs), <<>>, None)],
     [site |-> "call_property_of_type_elements", kind |-> "Call",
      callee |-> TypeLit([i \in 1..Len(sigs) |-> TypeElement("Method", sigs[i])])],
     [site |-> "call_property_of_class", kind |-> "Call",
      callee |-> ClassDef("C", FALSE, <<>>, sigs, None)],
     [site |-> "call_property", kind |-> "Call",
      callee |-> TypeLit([i \in 1..Len(sigs) |-> TypeElement("Call", sigs[i])])]}
    \cup (IF Len(sigs) >= 2 /\ NoDuplicates(sigs)
          THEN {[site |-> "extract", kind |-> "Call",
                 callee |-> Union([i \in 1..Len(sigs) |-> FunctionTy(sigs[i])])],
                [site |-> "extract", kind |-> "Call",
                 callee |-> Intersection([i \in 1..Len(sigs) |-> FunctionTy(sigs[i])])]}
          ELSE {})

CallSites == UNION {CallSitesOf(sigs) : sigs \in CandidateLists}

CallArgChoices ==
    {[spread |-> FALSE, ty |-> Keyword(k)] : k \in {"number", "string", "any"}}
    \cup {[spread |-> TRUE, ty |-> Array("number")]}

CallArgLists ==
    {[i \in 1..Len(s) |-> TypeOrSpread(i, s[i].spread, s[i].ty)] :
        s \in SeqsUpTo(CallArgChoices, MaxCallArgs)}

\* site names the function that resolves the call (see ResolveCall); callee
\* is the type of the callee, or of the object for a property call; kind is
\* the ExtractKind; expr the ReevalMode: a call or new expression passes
\* itself, a tagged template passes NoReeval; type_args the explicit type
\* arguments; arg_types the result of validate_args; type_ann the contextual
\* type annotation.
CallExprs ==
    {[site |-> cs.site, callee |-> cs.callee, kind |-> cs.kind, expr |-> e,
      type_args |-> ta, arg_types |-> ats, type_ann |-> ann] :
        cs \in CallSites,
        e \in {"Call", "New", NoReeval},
        ta \in {None, Some(<<Keyword("string")>>)},
        ats \in CallArgLists,
        ann \in {None, Some(Keyword("string"))}}

\* An annotation is only combined with inferred type arguments.
ReevalModeFits(c) ==
    /\ c.expr \in (IF c.kind = "Call" THEN {"Call", NoReeval} ELSE {"New"})
    /\ c.type_args # None => c.type_ann = None

CallInit ==
    /\ pc = "call_start"
    /\ call \in {c \in CallExprs : ReevalModeFits(c)}
    /\ args = [i \in 1..Len(call.arg_types) |-> Arg(call.arg_types[i].spread)]
    /\ reevaluating_call_or_new \in BOOLEAN
    /\ is_calling_iife = FALSE
    /\ spread_arg_types = <<>>
    /\ storage = <<>>
    /\ candidates = <<>>
    /\ callable = <<>>
    /\ result = NoResult
    /\ params = <<>>
    /\ arg_count_res = Ok
    /\ is_generic = FALSE
    /\ SortIdle
    /\ ReevalIdle
    /\ NarrowIdle
    /\ ThisIdle
    /\ SpreadIdle

\* The arguments and the ctx the resolving functions receive.
CallCx ==
    LET spread == spread_args(call.arg_types)
    IN  [args |-> args, arg_types |-> call.arg_types, spread_arg_types |-> spread.types,
         type_args |-> call.type_args, type_ann |-> call.type_ann,
         kind |-> call.kind, expr |-> call.expr,
         is_calling_iife |-> is_calling_iife,
         reevaluating_call_or_new |-> reevaluating_call_or_new,
         is_instantiating_class |-> FALSE,
         is_call_arg_count_unknown |-> spread.unknown]

\* One execution of the validator from spread_args on.
CallPass(next_pc_after_reeval) ==
    \E spread \in {spread_args(call.arg_types)} :
    \E out \in {IF spread.ok THEN ResolveCall(call.site, call.callee, call.kind, CallCx)
                 ELSE Failed("SpreadMustBeIterable", <<>>, <<>>)} :
        /\ spread_arg_types' = spread.types
        /\ storage' = storage \o out.diags
        /\ candidates' = out.candidates
        /\ callable' = out.callable
        /\ result' = [status |-> out.status, ty |-> out.ty, err |-> out.err]
        /\ IF out.reeval
           THEN pc' = next_pc_after_reeval /\ reevaluating_call_or_new' = TRUE
           ELSE /\ pc' = "call_done"
                \* the ctx of the caller is back in place once the re-invoked
                \* validator has returned
                /\ reevaluating_call_or_new' = IF pc = "call_reeval" THEN FALSE
                                               ELSE reevaluating_call_or_new
        /\ UNCHANGED call
        /\ UNCHANGED <<args, is_calling_iife, params, arg_count_res, is_generic, sortVars, reevalVars, narrowVars, thisVars, spreadVars>>

\* The validator of the expression.
ValidateCall == pc = "call_start" /\ CallPass("call_reeval")

\* The validator re-invoked by get_return_type, under
\* ctx.reevaluating_call_or_new.
ReevaluateCall == pc = "call_reeval" /\ CallPass("call_reeval")

CallNext == ValidateCall \/ ReevaluateCall

SpecCall == CallInit /\ [][CallNext]_vars

\* The classification check_call_args gives the i-th candidate of the site.
ClassificationOf(i) ==
    check_call_args(candidates[i].type_params, candidates[i].params, call.type_args, args,
                    call.arg_types, is_calling_iife, CallCx.is_call_arg_count_unknown)

AllClassifyAsFailure ==
    \A i \in 1..Len(candidates) : ClassificationOf(i) \in {"ArgTypeMismatch", "WrongArgCount"}

\* The site went through select_and_invoke (every site but `new` on a class
\* definition).
ViaSelectAndInvoke == ~(call.site = "extract" /\ call.callee.k = "ClassDef")

\* get_return_type has been called with candidates[callable[1].c].
Forwarded == pc \in {"call_reeval", "call_done"} /\ callable # <<>> /\ result.status = "Ok"

NumberToA == CallCandidate(None, OneParam(Keyword("number")), Named("A"))
StringToB == CallCandidate(None, OneParam(Keyword("string")), Named("B"))
BooleanToB == CallCandidate(None, OneParam(Keyword("boolean")), Named("B"))
GenericId == CallCandidate(Some(<<"T">>), OneParam(TypeParamTy("T")), TypeParamTy("T"))

OneArgOfType(ty) == call.arg_types = <<TypeOrSpread(1, FALSE, ty)>>

\* C2: the candidate select_and_invoke forwards to get_return_type has a
\* classification that no other candidate beats, and it is the earliest of
\* the candidates with that classification; for (x: number) => A and
\* (x: string) => B called with a number the first is forwarded and the call
\* returns A.
C2_ForwardsBestEarliest ==
    /\ (Forwarded /\ ViaSelectAndInvoke) =>
          \A i \in 1..Len(candidates) :
              /\ StatedRank(ClassificationOf(callable[1].c)) <= StatedRank(ClassificationOf(i))
              /\ StatedRank(ClassificationOf(callable[1].c)) = StatedRank(ClassificationOf(i))
                    => callable[1].c <= i
    /\ (pc = "call_done" /\ ViaSelectAndInvoke /\ candidates = <<NumberToA, StringToB>>
            /\ OneArgOfType(Keyword("number"))) =>
          (callable[1].c = 1 /\ result.status = "Ok" /\ result.ty = Some(Named("A")))

\* Two candidates tie at Exact and the first one is forwarded.
C2_Witness ==
    /\ pc = "call_done"
    /\ ViaSelectAndInvoke
    /\ candidates = <<NumberToA, GenericId>>
    /\ OneArgOfType(Keyword("number"))
    /\ ClassificationOf(1) = "Exact" /\ ClassificationOf(2) = "Exact"
    /\ callable[1].c = 1
    /\ result.ty = Some(Named("A"))

DefaultSelectOptsSite ==
    \/ call.site = "extract" /\ call.callee.k \in {"Interface", "TypeLit"}
    \/ call.site \in {"call_property_of_type_elements", "call_property_of_class"}

ReturnedFromGeneric ==
    /\ pc = "call_done"
    /\ callable # <<>>
    /\ result.err # "NoMatchingOverload"
    /\ candidates[callable[1].c].type_params # None

\* C9: when get_return_type finishes on a generic signature the call has a
\* type and no type parameter is left in it: a parameter inference did not
\* solve is unknown.  For <T>(x: T) => T, without annotation and explicit
\* type arguments, a number argument gives number and no argument gives
\* unknown.
C9_UnsolvedParamsAreUnknown ==
    ReturnedFromGeneric =>
        /\ result.status = "Ok" /\ result.ty # None
        /\ result.ty[1].k # "Param"
        /\ (candidates[callable[1].c] = GenericId /\ call.type_ann = None /\ call.type_args = None) =>
              /\ OneArgOfType(Keyword("number")) => result.ty = Some(Keyword("number"))
              /\ call.arg_types = <<>> => result.ty = Some(Keyword("unknown"))

\* id() without annotation: T is not solved and the call has type unknown.
C9_Witness ==
    /\ ReturnedFromGeneric
    /\ candidates = <<GenericId>>
    /\ call.arg_types = <<>> /\ call.type_ann = None /\ call.type_args = None
    /\ result.ty = Some(Keyword("unknown"))

\* ------------------------------------------------------------------------
\* Validation of nested call expressions and their reevaluation
\* ------------------------------------------------------------------------
MaxCallExprs == 3

\* A call, new or tagged-template expression inside the expression under
\* validation: parent is the expression it is the callee or an argument of
\* (0 for the outermost one), type_params the type parameters of the
\* signature it resolves to, mode the ReevalMode it passes.
CallExpr(parent, role, type_params, mode) ==
    [parent |-> parent, role |-> role, type_params |-> type_params, mode |-> mode]

ExprVariants ==
    {[type_params |-> None, mode |-> "Call"],
     [type_params |-> Some(<<"T">>), mode |-> "Call"],
     [type_params |-> Some(<<"T">>), mode |-> "New"],
     [type_params |-> Some(<<"T">>), mode |-> NoReeval]}

\* The callee and the arguments of e, in the order they are validated.
ChildrenOf(es, e) == SelectSeq([i \in 1..Len(es) |-> i], LAMBDA i : es[i].parent = e)

\* Expressions are numbered in source order; the callee is validated before
\* the arguments, so only the first child can be the callee.
WellFormedExprs(es) ==
    /\ es[1].parent = 0 /\ es[1].role = "root"
    /\ \A i \in 2..Len(es) :
          /\ es[i].parent \in 1..(i - 1)
          /\ es[i].role \in {"callee", "arg"}
          /\ es[i].role = "callee" => ChildrenOf(es, es[i].parent)[1] = i

\* The trees of exactly n expressions.
RECURSIVE ExprTreesOfSize(_)
ExprTreesOfSize(n) ==
    IF n = 1
    THEN {<<CallExpr(0, "root", x.type_params, x.mode)>> : x \in ExprVariants}
    ELSE {es \in {Append(t, CallExpr(p, r, x.type_params, x.mode)) :
                     t \in ExprTreesOfSize(n - 1), p \in 1..(n - 1),
                     r \in {"callee", "arg"}, x \in ExprVariants} :
             WellFormedExprs(es)}

ExprTrees == UNION {ExprTreesOfSize(n) : n \in 1..MaxCallExprs}

\* A validator in progress: the expression, the ctx flag it runs under, how
\* many of its children it has validated, and whether it is inside
\* get_return_type waiting for the validator it re-invoked.
Frame(e, flag, done, waiting) ==
    [e |-> e, reevaluating_call_or_new |-> flag, done |-> done, waiting |-> waiting]

\* The depth of recursion the model follows (two validators per expression
\* are the most the analyzer nests).
MaxStackDepth == 2 * MaxCallExprs + 1

ReevalInit ==
    /\ pc = "reeval_start"
    /\ exprs \in ExprTrees
    /\ stack = <<>>
    /\ validated = [i \in 1..Len(exprs) |-> 0]
    /\ reevaluated = [i \in 1..Len(exprs) |-> 0]
    /\ SortIdle
    /\ ArityIdle
    /\ ArgTypesIdle
    /\ CallIdle
    /\ NarrowIdle
    /\ ThisIdle
    /\ SpreadIdle

Top == stack[Len(stack)]

\* The validator of the outermost expression is called with the default ctx.
ValidateExpr ==
    /\ pc = "reeval_start"
    /\ stack' = <<Frame(1, FALSE, 0, FALSE)>>
    /\ validated' = [validated EXCEPT ![1] = @ + 1]
    /\ pc' = "reeval_run"
    /\ UNCHANGED <<exprs, reevaluated>>
    /\ UNCHANGED <<sortVars, arityVars, argTypesVars, callVars, narrowVars, thisVars, spreadVars>>

\* callee.validate_with_default / validate_args: the validator of the next
\* child runs under the ctx of its parent.
ValidateChild ==
    /\ pc = "reeval_run"
    /\ Len(stack) < MaxStackDepth
    /\ ~Top.waiting
    /\ Top.done < Len(ChildrenOf(exprs, Top.e))
    /\ LET child == ChildrenOf(exprs, Top.e)[Top.done + 1]
       IN  /\ stack' = Append(stack, Frame(child, Top.reevaluating_call_or_new, 0, FALSE))
           /\ validated' = [validated EXCEPT ![child] = @ + 1]
    /\ UNCHANGED <<pc, exprs, reevaluated>>
    /\ UNCHANGED <<sortVars, arityVars, argTypesVars, callVars, narrowVars, thisVars, spreadVars>>

\* get_return_type: `return e.validate_with_args(&mut *self.with_ctx(ctx), type_ann)`
\* with ctx.reevaluating_call_or_new = true.
Reevaluate ==
    /\ pc = "reeval_run"
    /\ Len(stack) < MaxStackDepth
    /\ ~Top.waiting
    /\ Top.done = Len(ChildrenOf(exprs, Top.e))
    /\ ShouldReevaluate(exprs[Top.e].type_params, Top.reevaluating_call_or_new, exprs[Top.e].mode)
    /\ stack' = Append([stack EXCEPT ![Len(stack)].waiting = TRUE], Frame(Top.e, TRUE, 0, FALSE))
    /\ validated' = [validated EXCEPT ![Top.e] = @ + 1]
    /\ reevaluated' = [reevaluated EXCEPT ![Top.e] = @ + 1]
    /\ UNCHANGED <<pc, exprs>>
    /\ UNCHANGED <<sortVars, arityVars, argTypesVars, callVars, narrowVars, thisVars, spreadVars>>

\* The stack once the validators that have returned are removed: a waiting
\* validator returns what the one it re-invoked returned.
RECURSIVE Unwind(_)
Unwind(st) ==
    IF st # <<>> /\ st[Len(st)].waiting THEN Unwind(SubSeq(st, 1, Len(st) - 1)) ELSE st

\* get_return_type falls through to the end and the validator returns.
Return ==
    /\ pc = "reeval_run"
    /\ ~Top.waiting
    /\ Top.done = Len(ChildrenOf(exprs, Top.e))
    /\ ~ShouldReevaluate(exprs[Top.e].type_params, Top.reevaluating_call_or_new, exprs[Top.e].mode)
    /\ LET rest == Unwind(SubSeq(stack, 1, Len(stack) - 1))
       IN  IF rest = <<>>
           THEN stack' = <<>> /\ pc' = "reeval_done"
           ELSE stack' = [rest EXCEPT ![Len(rest)].done = @ + 1] /\ pc' = pc
    /\ UNCHANGED <<exprs, validated, reevaluated>>
    /\ UNCHANGED <<sortVars, arityVars, argTypesVars, callVars, narrowVars, thisVars, spreadVars>>

ReevalNext == ValidateExpr \/ ValidateChild \/ Reevaluate \/ Return

SpecReeval == ReevalInit /\ [][ReevalNext]_vars

\* The analyzer runs a validator to its end once it is called.
SpecReevalLive == ReevalInit /\ [][ReevalNext]_vars /\ WF_vars(ReevalNext)

WaitingFrames == {i \in 1..Len(stack) : stack[i].waiting}

\* Every validator waiting in get_return_type ran without the flag and the
\* validator it re-invoked, for the same expression, runs with it; at most
\* one validator waits; every validator above a flagged one is flagged; no
\* expression has been re-invoked more than once.
ReevaluationIsGuarded ==
    /\ \A i \in WaitingFrames :
          /\ ~stack[i].reevaluating_call_or_new
          /\ i < Len(stack)
          /\ stack[i + 1].e = stack[i].e
          /\ stack[i + 1].reevaluating_call_or_new
    /\ Cardinality(WaitingFrames) <= 1
    /\ \A i \in 1..Len(stack) : \A j \in 1..Len(stack) :
          (i < j /\ stack[i].reevaluating_call_or_new) => stack[j].reevaluating_call_or_new
    /\ \A e \in 1..Len(reevaluated) : reevaluated[e] <= 1

C8_ValidatedAtMostTwice ==
    \A e \in 1..Len(validated) : validated[e] <= 2

\* ------------------------------------------------------------------------
\* Facts recorded for an identifier by repeated predicate calls
\* ------------------------------------------------------------------------
MaxNarrowings == 2

ClassD == ClassDef("D", FALSE, <<>>, <<>>, None)
InterfaceJ == Interface("J", <<>>, <<>>)
InterfaceK == Interface("K", <<>>, <<>>)
\* interface L extends K
InterfaceL == Interface("L", <<"K">>, <<>>)

\* Types of the guarded identifier.
OriginalTypes ==
    {Keyword("unknown"), Keyword("string"), ClassInstance("D"), ClassInstance("E"), ClassD,
     InterfaceJ, InterfaceK, InterfaceL,
     Union(<<ClassInstance("D"), Keyword("string")>>),
     Union(<<InterfaceK, Keyword("string")>>),
     Union(<<InterfaceL, InterfaceJ>>)}

\* Types a predicate `v is T` asserts.
PredicateTypes ==
    {Keyword("string"), ClassInstance("D"), ClassD, InterfaceJ, InterfaceK, InterfaceL,
     Union(<<InterfaceK, Keyword("string")>>)}

NarrowInit ==
    /\ pc = "narrow"
    /\ previous_types \in OriginalTypes
    /\ predicate_ty \in PredicateTypes
    /\ narrowed = <<>>
    /\ call_facts = <<>>
    /\ SortIdle
    /\ ArityIdle
    /\ ArgTypesIdle
    /\ CallIdle
    /\ ReevalIdle
    /\ ThisIdle
    /\ SpreadIdle

\* A call of the predicate with the identifier as argument: add_call_facts
\* stores the fact, which becomes the type of the identifier.
StoreCallFactForVar ==
    /\ pc = "narrow"
    /\ Len(narrowed) < MaxNarrowings
    /\ \E narrowed_ty \in {store_call_fact_for_var(previous_types, predicate_ty)} :
          /\ previous_types' = narrowed_ty
          /\ narrowed' = Append(narrowed, narrowed_ty)
    /\ UNCHANGED <<pc, predicate_ty, call_facts>>
    /\ UNCHANGED <<sortVars, arityVars, argTypesVars, callVars, reevalVars, thisVars, spreadVars>>

NarrowNext == StoreCallFactForVar

SpecNarrow == NarrowInit /\ [][NarrowNext]_vars

\* C10: narrowing an identifier again with the same predicate leaves its
\* narrowed type unchanged: narrow(narrow(o, a), a) = narrow(o, a).
C10_NarrowIsIdempotent ==
    \A i \in 1..Len(narrowed) : narrowed[i] = narrowed[1]

\* `new` applied directly to an abstract class definition.
NewOnAbstractClass ==
    /\ call.site = "extract" /\ call.kind = "New"
    /\ call.callee.k = "ClassDef" /\ call.callee.is_abstract

DiagCount(kind_of_error) == Cardinality({i \in 1..Len(storage) : storage[i].kind = kind_of_error})

\* C11: `new` on an abstract class definition reports exactly one
\* CannotCreateInstanceOfAbstractClass and returns Ok with the instance type
\* of that class.
C11_AbstractClassInstantiation ==
    (pc \in {"call_reeval", "call_done"} /\ NewOnAbstractClass) =>
        /\ pc = "call_done"
        /\ result = [status |-> "Ok", ty |-> Some(ClassInstance(call.callee.name)), err |-> ""]
        /\ DiagCount("CannotCreateInstanceOfAbstractClass") = 1

\* new C("x") for an abstract class C whose constructor takes a number.
C11_Witness ==
    /\ pc = "call_done"
    /\ NewOnAbstractClass
    /\ call.callee.constructors = Constructors(<<NumberToA>>)
    /\ OneArgOfType(Keyword("string"))
    /\ result.status = "Ok"
    /\ storage = <<Diag("CannotCreateInstanceOfAbstractClass", CallSpan)>>

\* ------------------------------------------------------------------------
\* call_property and self.scope.this
\* ------------------------------------------------------------------------
\* A class definition as call_property_of_class reads it: property is the
\* value type of the ClassMember::Property whose key is the called property
\* (an Option), methods the signatures of the methods of that name.
ClassBody(name, property, methods, super_class) ==
    [k |-> "ClassDef", name |-> name, is_abstract |-> FALSE, constructors |-> <<>>,
     property |-> property, methods |-> methods, super_class |-> super_class]

\* Type::Class { def }
ClassOf(def) == [k |-> "Class", def |-> def]

\* A module whose export of the called name has the type export (an Option).
Module(export) == [k |-> "Module", export |-> export]

InterfaceI == Interface("I", <<>>, <<TypeElement("Method", NumberToA)>>)
InterfaceM == Interface("M", <<"I">>, <<>>)
\* interface S with the overloads (x: string) => B and (x: boolean) => B
InterfaceS == Interface("S", <<>>, <<TypeElement("Method", StringToB), TypeElement("Method", BooleanToB)>>)
\* `interface Object` and `interface Array<T>` of the library: neither
\* declares a method with the called name.
InterfaceObject == Interface("Object", <<>>, <<>>)
InterfaceArray == Interface("Array", <<>>, <<>>)

\* type_of_ts_entity_name: the declaration a type name refers to.
DeclaredInterfaces == {InterfaceI, InterfaceM, InterfaceS, InterfaceObject, InterfaceArray}

\* type_of_ts_entity_name(..).is_ok(): the name refers to a declaration.
ResolvesEntityName(name) == \E i \in DeclaredInterfaces : i.name = name

type_of_ts_entity_name(name) ==
    CHOOSE i \in DeclaredInterfaces : i.name = name

\* access_property(obj_type, prop): the type of the property, if there is one.
access_property(obj_type) ==
    IF obj_type.k = "Module" THEN obj_type.export ELSE None

\* self.scope.this after extract(callee_ty, kind): the ClassDef arm for `new`
\* assigns it, and so does the lookup of the constructor of the super class.
RECURSIVE this_after_extract(_, _, _)
this_after_extract(scope, callee_ty, kind) ==
    LET ty == Normalize(callee_ty)
    IN  IF kind = "New" /\ ty.k = "ClassDef"
        THEN IF ~ty.is_abstract /\ ty.constructors = <<>> /\ ty.super_class # None
             THEN this_after_extract(Some(ClassInstance(ty.name)), ty.super_class[1], kind)
             ELSE Some(ClassInstance(ty.name))
        ELSE scope

\* The binding put back only when the body returned Ok.
RestoreThisOnOk(old_this, res) == IF res.status = "Ok" THEN old_this ELSE res.this

\* `self.scope.this = old_this;` after the body of call_property.
RestoreThis(old_this, res) == old_this

\* F applied to the value of an expression that is evaluated once.
Bind(value, F(_)) == CHOOSE y \in {F(x) : x \in {value}} : TRUE

RECURSIVE call_property(_, _, _, _, _, _)
RECURSIVE CallPropertyOfMembers(_, _, _, _, _, _, _, _)
RECURSIVE CallPropertyOfParents(_, _, _, _, _, _, _)
RECURSIVE call_property_of_class_members(_, _, _, _, _, _, _)

\* `obj.types.iter().map(|obj| self.call_property(..)).filter_map(Result::ok)`
\* of the intersection arm: [status, this].
CallPropertyOfMembers(scope, this_ty, types, i, found, kind, cx, do_not_check_object) ==
    IF i > Len(types)
    THEN [status |-> IF found THEN "Ok" ELSE "Err", this |-> scope]
    ELSE Bind(call_property(scope, this_ty, types[i], kind, cx, do_not_check_object),
              LAMBDA r : CallPropertyOfMembers(r.this, this_ty, types, i + 1,
                                               found \/ r.status = "Ok",
                                               kind, cx, do_not_check_object))

\* `for parent in &i.extends { .. }` of the interface arm.
CallPropertyOfParents(scope, this_ty, extends, i, kind, cx, do_not_check_object) ==
    IF i > Len(extends) THEN [status |-> "Err", this |-> scope]
    \* `self.type_of_ts_entity_name(..).context(..)?`
    ELSE IF ~ResolvesEntityName(extends[i]) THEN [status |-> "Err", this |-> scope]
    ELSE Bind(call_property(scope, this_ty, type_of_ts_entity_name(extends[i]), kind, cx,
                            do_not_check_object),
              LAMBDA r : IF r.status = "Ok" THEN [status |-> "Ok", this |-> r.this]
                         ELSE CallPropertyOfParents(r.this, this_ty, extends, i + 1, kind, cx,
                                                    do_not_check_object))

\* call_property_of_class with properties and a super class:
\* [status |-> "Ok", "Err" or "None" (Ok(None)), this].
call_property_of_class_members(scope, this_ty, c, is_static_call, kind, cx, do_not_check_object) ==
    IF c.property # None
    THEN [status |-> cx.extract[c.property[1]],
          this |-> this_after_extract(scope, c.property[1], kind)]
    ELSE Bind(cx.select_and_invoke[c.methods],
              LAMBDA selected :
                IF selected # "None" THEN [status |-> selected, this |-> scope]
                ELSE IF c.super_class = None THEN [status |-> "None", this |-> scope]
                ELSE Bind(call_property(scope, this_ty,
                                        IF is_static_call THEN c.super_class[1]
                                        ELSE ClassOf(c.super_class[1]),
                                        kind, cx, do_not_check_object),
                          LAMBDA r : [status |-> IF r.status = "Ok" THEN "Ok" ELSE "None",
                                      this |-> r.this]))

\* The end of the body of call_property, with scope the binding after the
\* methods of `Object` have been tried: the error for a class instance, then
\* access_property and get_best_return_type.
CallPropertyOfAccessedProperty(scope, ty, kind, cx) ==
    IF ty.k = "Class" THEN [status |-> "Err", this |-> scope]
    ELSE IF access_property(ty) = None THEN [status |-> "Err", this |-> scope]
    ELSE [status |-> cx.get_best_return_type[access_property(ty)[1]], this |-> scope]

\* The body of call_property after the match on the object type: the methods
\* of `Object` first, unless opts.do_not_check_object.
CallPropertyFallback(scope, this_ty, ty, kind, cx, do_not_check_object) ==
    IF do_not_check_object THEN CallPropertyOfAccessedProperty(scope, ty, kind, cx)
    ELSE Bind(call_property(scope, this_ty, InterfaceObject, kind, cx, TRUE),
              LAMBDA obj_res :
                IF obj_res.status = "Ok" THEN [status |-> "Ok", this |-> obj_res.this]
                ELSE CallPropertyOfAccessedProperty(obj_res.this, ty, kind, cx))

\* The ClassDef and Class arms: Ok(Some(v)) and Err return, Ok(None) falls
\* through to the rest of the body.
CallPropertyOfClassArm(scope, this_ty, ty, def, is_static_call, kind, cx, do_not_check_object) ==
    Bind(call_property_of_class_members(scope, this_ty, def, is_static_call, kind, cx,
                                        do_not_check_object),
         LAMBDA r : IF r.status # "None" THEN r
                    ELSE CallPropertyFallback(r.this, this_ty, ty, kind, cx, do_not_check_object))

\* The closure of call_property: [status, this] with this the binding it leaves.
CallPropertyBody(scope, this_ty, obj_type, kind, cx, do_not_check_object) ==
    LET ty == Normalize(obj_type)
    IN  CASE IsAny(ty) -> [status |-> "Ok", this |-> scope]
          [] ty.k = "Array" ->
                Bind(call_property(scope, this_ty, InterfaceArray, kind, cx, do_not_check_object),
                     LAMBDA r : [status |-> r.status, this |-> r.this])
          [] ty.k = "Intersection" ->
                CallPropertyOfMembers(scope, this_ty, ty.types, 1, FALSE, kind, cx, do_not_check_object)
          [] ty.k = "Interface" ->
                IF cx.call_property_of_type_elements[ty.members] = "Ok"
                THEN [status |-> "Ok", this |-> scope]
                ELSE CallPropertyOfParents(scope, this_ty, ty.extends, 1, kind, cx, do_not_check_object)
          [] ty.k = "TypeLit" ->
                [status |-> cx.call_property_of_type_elements[ty.members], this |-> scope]
          [] ty.k = "ClassDef" ->
                CallPropertyOfClassArm(scope, this_ty, ty, ty, TRUE, kind, cx, do_not_check_object)
          [] ty.k = "Class" ->
                CallPropertyOfClassArm(scope, this_ty, ty, ty.def, FALSE, kind, cx, do_not_check_object)
          [] OTHER -> CallPropertyFallback(scope, this_ty, ty, kind, cx, do_not_check_object)

\* call_property: [status, this, inner]; scope is self.scope.this at entry,
\* this what it is at exit and inner what the closure left.
call_property(scope, this_ty, obj_type, kind, cx, do_not_check_object) ==
    Bind(CallPropertyBody(Some(this_ty), this_ty, obj_type, kind, cx, do_not_check_object),
         LAMBDA res : [status |-> res.status, this |-> RestoreThis(scope, res), inner |-> res.this])

ClassC == ClassDef("C", FALSE, Constructors(<<NumberToA>>), <<>>, None)
ClassBase == ClassBody("Base", None, <<StringToB>>, None)

\* The receivers of the property call.
ThisReceivers ==
    {Keyword("any"), Keyword("number"), Array("number"),
     TypeLit(<<TypeElement("Method", NumberToA)>>), TypeLit(<<>>),
     InterfaceI, InterfaceM,
     Intersection(<<TypeLit(<<>>), InterfaceI>>), Intersection(<<TypeLit(<<>>), ClassOf(ClassBase)>>),
     Module(None), Module(Some(FunctionTy(NumberToA))), Module(Some(ClassC)),
     ClassBody("D", Some(ClassC), <<>>, None),
     ClassBody("D", Some(FunctionTy(NumberToA)), <<>>, None),
     ClassBody("D", None, <<NumberToA>>, None),
     ClassBody("D", None, <<>>, Some(ClassBase)),
     ClassBody("D", None, <<>>, Some(ClassBody("Base", Some(ClassC), <<>>, None))),
     ClassOf(ClassBody("D", Some(ClassC), <<>>, None)),
     ClassOf(ClassBody("D", None, <<NumberToA>>, None)),
     ClassOf(ClassBody("D", None, <<>>, Some(ClassBase))),
     ClassOf(ClassBody("D", None, <<>>, None))}

ThisInit ==
    /\ pc = "this_start"
    /\ scope_this \in {None, Some(ClassInstance("Outer"))}
    /\ this_call \in [obj_type : ThisReceivers, kind : {"Call", "New"},
                      arg_ty : {Keyword("number"), Keyword("string")}]
    /\ this_inner = None
    /\ this_result = ""
    /\ this_err = ""
    /\ parents_tried = <<>>
    /\ SortIdle
    /\ ArityIdle
    /\ ArgTypesIdle
    /\ CallIdle
    /\ ReevalIdle
    /\ NarrowIdle
    /\ SpreadIdle

\* The call site of the property call: one argument, no type arguments.
ThisCallSite ==
    [args |-> <<Arg(FALSE)>>, arg_types |-> <<TypeOrSpread(1, FALSE, this_call.arg_ty)>>,
     spread_arg_types |-> <<TypeOrSpread(1, FALSE, this_call.arg_ty)>>,
     type_args |-> None, type_ann |-> None,
     kind |-> this_call.kind, expr |-> NoReeval,
     is_calling_iife |-> FALSE,
     reevaluating_call_or_new |-> FALSE,
     is_instantiating_class |-> FALSE,
     is_call_arg_count_unknown |-> FALSE]

\* The types the receivers hold: member lists of interfaces and type
\* literals, method lists of classes, and the types of properties.
ThisMemberLists == {<<>>, <<TypeElement("Method", NumberToA)>>}
ThisMethodLists == {<<>>, <<NumberToA>>, <<StringToB>>}
ThisPropertyTypes == {ClassC, FunctionTy(NumberToA)}

\* What call_property is given besides the receiver: for each of the four
\* functions it hands the call over to, whether that function returns Ok,
\* Err or, for select_and_invoke, Ok(None), at this call site.
ThisCx ==
    [call_property_of_type_elements |->
        [ms \in ThisMemberLists |->
            call_property_of_type_elements(ms, this_call.kind, ThisCallSite).status],
     select_and_invoke |->
        [ms \in ThisMethodLists |-> select_and_invoke(ms, ThisCallSite, SelectOpts).status],
     extract |->
        [ty \in ThisPropertyTypes |-> extract(ty, this_call.kind, ThisCallSite, FALSE).status],
     get_best_return_type |->
        [ty \in ThisPropertyTypes |-> get_best_return_type(ty, this_call.kind, ThisCallSite).status]]

\* obj.prop(arg) or new obj.prop(arg): `this` is the type of the object.
CallProperty ==
    /\ pc = "this_start"
    /\ \E cx \in {ThisCx} :
       \E r \in {call_property(scope_this, this_call.obj_type, this_call.obj_type,
                               this_call.kind, cx, FALSE)} :
        /\ scope_this' = r.this
        /\ this_inner' = r.inner
        /\ this_result' = r.status
    /\ pc' = "this_done"
    /\ UNCHANGED <<this_call, this_err, parents_tried>>
    /\ UNCHANGED <<sortVars, arityVars, argTypesVars, callVars, reevalVars, narrowVars, spreadVars>>

ThisNext == CallProperty

SpecThis == ThisInit /\ [][ThisNext]_vars

\* C12: call_property restores self.scope.this on every exit path: whatever
\* the receiver and whether it returns Ok or Err, the binding after the call
\* equals the binding before it.
C12_ThisRestored == [][pc' = "this_done" => scope_this' = scope_this]_vars

\* new d.prop(1) where prop of class D holds the class C: the nested `new`
\* overwrote the binding with an instance of C, the call failed or returned,
\* and the binding `Outer` of the caller is back.
C12_Witness ==
    /\ pc = "this_done"
    /\ this_call.obj_type = ClassOf(ClassBody("D", Some(ClassC), <<>>, None))
    /\ this_call.kind = "New"
    /\ this_inner = Some(ClassInstance("C"))
    /\ this_result = "Ok"
    /\ scope_this = Some(ClassInstance("Outer"))

\* ------------------------------------------------------------------------
\* check_call_args on one candidate
\* ------------------------------------------------------------------------
MaxClassifiedArgs == 2

\* The signatures under classification: this, plain, optional and rest
\* parameters, and a parameter typed as a bare type parameter.
ClassifiedSignatures ==
    CheckedSignatures
    \cup {<<FnParam(IdentPat("a", FALSE), TypeParamTy("T"), TRUE)>>,
          <<FnParam(IdentPat("a", FALSE), TypeParamTy("T"), TRUE),
            FnParam(IdentPat("a", FALSE), Keyword("number"), TRUE)>>}

ClassifiedArgLists ==
    {[i \in 1..Len(s) |-> TypeOrSpread(i, s[i].spread, s[i].ty)] :
        s \in SeqsUpTo(ArgTypeChoices, MaxClassifiedArgs)}

\* type_params of the candidate and type_args of the call.
TypeParamsAndArgs ==
    {<<None, None>>, <<Some(<<"T">>), None>>, <<Some(<<"T">>), Some(<<Keyword("string")>>)>>,
     <<Some(<<"T">>), Some(<<Keyword("string"), Keyword("number")>>)>>}

ClassifyInit ==
    /\ pc = "classify_start"
    /\ \E ps \in ClassifiedSignatures : \E ta \in TypeParamsAndArgs : \E ats \in ClassifiedArgLists :
        /\ candidates = <<CallCandidate(ta[1], ps, Named("A"))>>
        /\ call = [NoCall EXCEPT !.site = "check_call_args", !.type_args = ta[2], !.arg_types = ats]
    /\ args = [i \in 1..Len(call.arg_types) |-> Arg(call.arg_types[i].spread)]
    /\ is_calling_iife = FALSE
    /\ callable = <<>>
    /\ reevaluating_call_or_new = FALSE
    /\ result = NoResult
    /\ params = <<>>
    /\ arg_count_res = Ok
    /\ ArgTypesIdle
    /\ SortIdle
    /\ ReevalIdle
    /\ NarrowIdle
    /\ ThisIdle
    /\ SpreadIdle

\* `candidates.iter().map(|c| { let res = self.check_call_args(..); (c, res) })`
\* for the one candidate, after spread_args has set the arity flag.
ClassifyCandidate ==
    /\ pc = "classify_start"
    /\ callable' = <<[c |-> 1,
                      res |-> check_call_args(candidates[1].type_params, candidates[1].params,
                                              call.type_args, args, call.arg_types, is_calling_iife,
                                              spread_args(call.arg_types).unknown)]>>
    /\ pc' = "classify_done"
    /\ UNCHANGED <<call, reevaluating_call_or_new, candidates, result>>
    /\ UNCHANGED <<sortVars, arityVars, argTypesVars, reevalVars, narrowVars, thisVars, spreadVars>>

ClassifyNext == ClassifyCandidate

SpecClassify == ClassifyInit /\ [][ClassifyNext]_vars

\* The type an argument at position i is held against by the signature ps:
\* the i-th declared parameter (`this` is not one), or the element type of
\* the rest parameter for the positions it covers.
CorrespondingParamType(ps, i) ==
    LET q == WithoutThis(ps)
        n == Len(q)
    IN  IF i <= n /\ q[i].pat.k # "Rest" THEN Some(q[i].ty)
        ELSE IF n > 0 /\ q[n].pat.k = "Rest" /\ i >= n
        THEN IF q[n].ty.k = "Array" THEN Some(q[n].ty.elem_type)
             ELSE IF q[n].ty.k = "Tuple" /\ i - n + 1 <= Len(q[n].ty.elems)
                  THEN Some(q[n].ty.elems[i - n + 1])
                  ELSE None
        ELSE None

\* The type an argument contributes: its element type when it is a spread array.
ArgumentType(arg) == IF arg.spread /\ arg.ty.k = "Array" THEN arg.ty.elem_type ELSE arg.ty

\* The classification as the four-way rule states it.
StatedClassification(c, type_args, as, arg_types, iife, count_unknown) ==
    LET checked == {i \in 1..Len(arg_types) :
                        /\ CorrespondingParamType(c.params, i) # None
                        /\ CorrespondingParamType(c.params, i)[1].k # "Param"}
        pty(i) == CorrespondingParamType(c.params, i)[1]
        aty(i) == ArgumentType(arg_types[i])
    IN  IF ~validate_type_args_count(c.type_params, type_args)
           \/ ~validate_arg_count(c.params, as, iife).ok
        THEN "WrongArgCount"
        ELSE IF \E i \in checked : ~Assignable(pty(i), aty(i)) THEN "ArgTypeMismatch"
        ELSE IF count_unknown \/ \E i \in checked : ~is_subtype_in_fn_call(aty(i), pty(i)) THEN "MayBe"
        ELSE "Exact"

\* C13: check_call_args yields WrongArgCount iff the type-argument count or
\* the arity check fails, else ArgTypeMismatch iff some argument is not
\* assignable to its corresponding formal parameter, else MayBe iff some
\* argument is not a subtype of its parameter or the arity is unknown, else
\* Exact.
C13_ClassificationRule ==
    pc = "classify_done" =>
        callable[1].res = StatedClassification(candidates[1], call.type_args, args, call.arg_types,
                                               is_calling_iife, spread_args(call.arg_types).unknown)

\* ------------------------------------------------------------------------
\* validate_arg_count: tuple-typed rest parameters and IIFE calls
\* ------------------------------------------------------------------------
\* (a.., ...args: [e1, .., en]) with no open-ended element and no `this`.
IsClosedTupleRestSignature(ps) ==
    /\ Len(ps) >= 1
    /\ \A i \in 1..Len(ps) : ~IsThisPat(ps[i].pat)
    /\ ps[Len(ps)].pat.k = "Rest" /\ ps[Len(ps)].ty.k = "Tuple"
    /\ \A j \in 1..Len(ps[Len(ps)].ty.elems) : ps[Len(ps)].ty.elems[j].k # "Rest"

\* (number of parameters - 1) + (number of tuple elements)
StatedTupleMax(ps) == (Len(ps) - 1) + Len(ps[Len(ps)].ty.elems)

RequiredCount(ps) == Cardinality({i \in 1..Len(ps) : ps[i].required})

\* C14: a rest parameter typed as a tuple without a rest element bounds the
\* argument count by (parameters - 1) + (tuple elements), optional elements
\* included: a call with that many arguments, or fewer but at least the
\* required ones, passes, and a call with more fails with ExpectedNArgsButGotM.
C14_TupleRestUpperBound ==
    (pc = "arity_done" /\ IsClosedTupleRestSignature(params) /\ NoSpread(args) /\ ~is_calling_iife) =>
        /\ (RequiredCount(params) <= Len(args) /\ Len(args) <= StatedTupleMax(params)) => arg_count_res.ok
        /\ Len(args) > StatedTupleMax(params) =>
              ~arg_count_res.ok /\ arg_count_res.kind = "ExpectedNArgsButGotM"

\* min_param and max_param as validate_arg_count computes them.
ArgCountBounds(ps) ==
    ArgCountLoop([min |-> SumSeq([i \in 1..Len(ps) |-> count_required_pat(ps[i].pat)]),
                  max |-> Some(Len(ps))], ps, 1)

\* C15: for an IIFE call without spread arguments and with a bounded max,
\* every call with at most max arguments passes, even with fewer than min,
\* and every call with more than max arguments fails with
\* ExpectedNArgsButGotM.
C15_IifeRelaxesLowerBound ==
    (pc = "arity_done" /\ is_calling_iife /\ NoSpread(args) /\ ArgCountBounds(params).max # None) =>
        /\ Len(args) <= ArgCountBounds(params).max[1] => arg_count_res.ok
        /\ Len(args) > ArgCountBounds(params).max[1] =>
              ~arg_count_res.ok /\ arg_count_res.kind = "ExpectedNArgsButGotM"

\* (function (a: number, b: number) {})(1): fewer arguments than min.
C15_Witness ==
    /\ pc = "arity_done"
    /\ is_calling_iife /\ NoSpread(args)
    /\ ArgCountBounds(params) = [min |-> 2, max |-> Some(2)]
    /\ Len(args) = 1
    /\ arg_count_res.ok

\* ------------------------------------------------------------------------
\* validate_arg_types: array-typed rest parameters and is_generic
\* ------------------------------------------------------------------------
\* (a.., ...rest: T[]) without a `this` parameter
IsArrayRestSignature(ps) ==
    /\ Len(ps) >= 1
    /\ \A i \in 1..Len(ps) : ~IsThisPat(ps[i].pat)
    /\ ps[Len(ps)].pat.k = "Rest" /\ ps[Len(ps)].ty.k = "Array"

NoSpreadTypes(as) == \A i \in 1..Len(as) : ~as[i].spread

\* C16: for a non-generic signature whose rest parameter has the type T[],
\* every argument at or after the rest position is checked against T: it has
\* a WrongArgType diagnostic exactly when it is not assignable to T.
C16_ArrayRestChecksEveryArgument ==
    (/\ pc = "arg_types_done"
     /\ ~is_generic
     /\ IsArrayRestSignature(params)
     /\ NoSpreadTypes(spread_arg_types)) =>
        \A i \in Len(params)..Len(spread_arg_types) :
            (spread_arg_types[i].span \in WrongArgTypeSpans)
                <=> ~Assignable(params[Len(params)].ty.elem_type, spread_arg_types[i].ty)

\* The spans validate_arg_types reports for the non-generic signature ps
\* called with as.
ReportedSpans(ps, as) ==
    LET diags == validate_arg_types(ps, as, FALSE)
    IN  {diags[i].span : i \in 1..Len(diags)}

\* as with the argument at position i replaced by one of type any, which is
\* assignable to every parameter.
WithAnyAt(as, i) == [as EXCEPT ![i].ty = Keyword("any")]

\* C17: with is_generic = true one invocation of validate_arg_types records
\* at most one diagnostic; with is_generic = false whether an argument gets a
\* diagnostic does not depend on an earlier argument failing: the argument
\* has the same diagnostic when the earlier argument is made to pass.
C17_DiagnosticsPerInvocation ==
    pc = "arg_types_done" =>
        /\ is_generic => Len(storage) <= 1
        /\ (~is_generic /\ NoSpreadTypes(spread_arg_types)) =>
              \A i \in 1..Len(spread_arg_types) : \A j \in (i + 1)..Len(spread_arg_types) :
                  (spread_arg_types[j].span \in ReportedSpans(params, spread_arg_types))
                      <=> (spread_arg_types[j].span \in ReportedSpans(params, WithAnyAt(spread_arg_types, i)))

\* ------------------------------------------------------------------------
\* spread_args
\* ------------------------------------------------------------------------
MaxSpreadArgs == 3

\* Plain arguments and spreads of a tuple, the empty tuple, any, an array, an
\* iterable (a string) and a value that is not iterable.
SpreadArgChoices ==
    {[spread |-> FALSE, ty |-> Keyword("number")],
     [spread |-> FALSE, ty |-> Tuple(<<Keyword("string"), Keyword("number")>>)],
     [spread |-> TRUE, ty |-> Tuple(<<Keyword("string"), Keyword("number")>>)],
     [spread |-> TRUE, ty |-> Tuple(<<>>)],
     [spread |-> TRUE, ty |-> Keyword("any")],
     [spread |-> TRUE, ty |-> Array("number")],
     [spread |-> TRUE, ty |-> Keyword("string")],
     [spread |-> TRUE, ty |-> Keyword("number")]}

SpreadArgLists ==
    {[i \in 1..Len(s) |-> TypeOrSpread(i, s[i].spread, s[i].ty)] :
        s \in SeqsUpTo(SpreadArgChoices, MaxSpreadArgs)}

SpreadInit ==
    /\ pc = "spread_start"
    /\ call \in {[NoCall EXCEPT !.site = "spread_args", !.arg_types = ats] : ats \in SpreadArgLists}
    /\ is_call_arg_count_unknown \in BOOLEAN
    /\ spread_arg_types = <<>>
    /\ result = NoResult
    /\ reevaluating_call_or_new = FALSE
    /\ candidates = <<>>
    /\ callable = <<>>
    /\ is_generic = FALSE
    /\ storage = <<>>
    /\ SortIdle
    /\ ArityIdle
    /\ ReevalIdle
    /\ NarrowIdle
    /\ ThisIdle

\* `let spread_arg_types = self.spread_args(arg_types)?`: the flag of the
\* scope is only ever set; the non-iterable spread that fails has set it.
SpreadArgs ==
    /\ pc = "spread_start"
    /\ \E r \in {spread_args(call.arg_types)} :
        /\ spread_arg_types' = IF r.ok THEN r.types ELSE <<>>
        /\ result' = [NoResult EXCEPT !.status = IF r.ok THEN "Ok" ELSE "Err"]
        /\ is_call_arg_count_unknown' = (is_call_arg_count_unknown \/ r.unknown)
    /\ pc' = "spread_done"
    /\ UNCHANGED <<call, reevaluating_call_or_new, candidates, callable, is_generic, storage>>
    /\ UNCHANGED <<sortVars, arityVars, reevalVars, narrowVars, thisVars>>

SpreadNext == SpreadArgs

SpecSpread == SpreadInit /\ [][SpreadNext]_vars

\* The number of entries an argument becomes.
StatedWidth(arg) == IF arg.spread /\ arg.ty.k = "Tuple" THEN Len(arg.ty.elems) ELSE 1

\* The position before the entries of argument i.
StatedOffset(as, i) == SumSeq([j \in 1..(i - 1) |-> StatedWidth(as[j])])

\* What the entries out[off + 1 ..] of one argument must be.
StatedEntries(arg, out, off) ==
    IF ~arg.spread THEN out[off + 1] = arg
    ELSE IF arg.ty.k = "Tuple"
         THEN \A e \in 1..Len(arg.ty.elems) :
                  ~out[off + e].spread /\ out[off + e].ty = arg.ty.elems[e]
         ELSE IF IsAny(arg.ty) THEN ~out[off + 1].spread /\ IsAny(out[off + 1].ty)
         ELSE out[off + 1].spread

\* C18: spread_args keeps the order and maps each entry on its own: a plain
\* entry is passed through, a spread tuple of n elements becomes n plain
\* entries, a spread any one plain entry of type any, a spread array or
\* iterable one entry that keeps its spread marker; a returned spread entry
\* implies that the arity-unknown flag is set; without a spread argument the
\* list is returned unchanged and the flag is not modified.
C18_SpreadArgsMapping ==
    [][(pc' = "spread_done" /\ result'.status = "Ok") =>
          /\ Len(spread_arg_types') = StatedOffset(call.arg_types, Len(call.arg_types) + 1)
          /\ \A i \in 1..Len(call.arg_types) :
                StatedEntries(call.arg_types[i], spread_arg_types', StatedOffset(call.arg_types, i))
          /\ (\E n \in 1..Len(spread_arg_types') : spread_arg_types'[n].spread)
                => is_call_arg_count_unknown'
          /\ (\A i \in 1..Len(call.arg_types) : ~call.arg_types[i].spread) =>
                /\ spread_arg_types' = call.arg_types
                /\ is_call_arg_count_unknown' = is_call_arg_count_unknown]_vars

\* f(1, ...[s, n], ...arr): four entries, the last one still a spread, and
\* the flag is set.
C18_Witness ==
    /\ pc = "spread_done"
    /\ Len(call.arg_types) = 3
    /\ ~call.arg_types[1].spread
    /\ call.arg_types[2].spread /\ call.arg_types[2].ty = Tuple(<<Keyword("string"), Keyword("number")>>)
    /\ call.arg_types[3].spread /\ call.arg_types[3].ty = Array("number")
    /\ result.status = "Ok"
    /\ Len(spread_arg_types) = 4
    /\ spread_arg_types[4].spread
    /\ is_call_arg_count_unknown

\* ------------------------------------------------------------------------
\* get_return_type: re-invocation and what it returns
\* ------------------------------------------------------------------------
\* An argument that is an arrow or function literal has a function type; the
\* arguments of the calls analysed here are identifiers and literals of the
\* types number, string and any, and spread arrays.
IsFunctionLiteral(arg) == arg.ty.k = "Function"

\* C19: get_return_type re-invokes the validator of the call or new
\* expression only when the chosen signature is generic and some argument is
\* a function or arrow literal to patch; otherwise the call is resolved in a
\* single pass.
C19_ReinvokesOnlyToPatchLiterals ==
    pc = "call_reeval" => \E i \in 1..Len(call.arg_types) : IsFunctionLiteral(call.arg_types[i])

\* get_return_type has been called with candidates[callable[1].c] and the
\* expression is resolved.
ResolvedByGetReturnType ==
    pc = "call_done" /\ callable # <<>> /\ result.err # "NoMatchingOverload"

StorageHas(kinds) == \E i \in 1..Len(storage) : storage[i].kind \in kinds

\* C20: an arity violation, a type-argument count mismatch or an argument
\* type mismatch against the chosen signature does not make get_return_type
\* return an error: the problem is in the storage and the call has a type.
C20_ProblemsAreReported ==
    ResolvedByGetReturnType =>
        LET chosen == candidates[callable[1].c]
            wrong_types == validate_arg_types(chosen.params, spread_arg_types, FALSE)
        IN  /\ result.status = "Ok" /\ result.ty # None
            /\ ~validate_arg_count(chosen.params, args, is_calling_iife).ok
                  => StorageHas({"ExpectedNArgsButGotM", "ExpectedAtLeastNArgsButGotM"})
            /\ ~validate_type_args_count(chosen.type_params, call.type_args)
                  => StorageHas({"TypeParameterCountMismatch"})
            /\ (chosen.type_params = None /\ wrong_types # <<>>)
                  => \A i \in 1..Len(wrong_types) : \E j \in 1..Len(storage) : storage[j] = wrong_types[i]

\* f("x") for f: (x: number) => A: the call has type A and one WrongArgType
\* is in the storage.
C20_Witness ==
    /\ ResolvedByGetReturnType
    /\ candidates = <<NumberToA>>
    /\ OneArgOfType(Keyword("string"))
    /\ result.status = "Ok" /\ result.ty = Some(Named("A"))
    /\ StorageHas({"WrongArgType"})

\* ------------------------------------------------------------------------
\* extract_callee_candidates and extract on one callee
\* ------------------------------------------------------------------------
\* class B { constructor(x: number) }, class B { }
ClassBWithConstructor == ClassDef("B", FALSE, Constructors(<<NumberToA>>), <<>>, None)
ClassBWithoutConstructor == ClassDef("B", FALSE, <<>>, <<>>, None)

\* class D with zero, one or two declared constructors, without a super
\* class or extending B or a value of type any.
ExtractedClassDefs ==
    {ClassDef("D", FALSE, Constructors(sigs), <<>>, sc) :
        sigs \in {<<>>, <<StringToB>>, <<StringToB, NumberToA>>},
        sc \in {None, Some(ClassBWithConstructor), Some(ClassBWithoutConstructor),
                Some(Keyword("any"))}}

\* The constraints of the type parameter T: a function, a type literal with a
\* call and a construct signature, a class definition.
ParamConstraints ==
    {FunctionTy(NumberToA),
     TypeLit(<<TypeElement("Call", NumberToA), TypeElement("Constructor", StringToB)>>),
     ClassBWithConstructor}

\* A callee ty alone and next to a function type in a union and in an
\* intersection.
CalleeShapes(ty) ==
    {ty, Union(<<ty, FunctionTy(StringToB)>>), Intersection(<<ty, FunctionTy(StringToB)>>)}

ExtractedCallees ==
    ExtractedClassDefs
    \cup UNION {CalleeShapes(c) \cup CalleeShapes(ConstrainedParam("T", c)) : c \in ParamConstraints}
    \cup {TypeParamTy("T")}

ExtractInit ==
    /\ pc = "extract_start"
    /\ \E callee \in ExtractedCallees : \E kind \in {"Call", "New"} : \E ats \in CallArgLists :
        call = [NoCall EXCEPT !.site = "extract", !.callee = callee, !.kind = kind,
                              !.expr = kind, !.arg_types = ats]
    /\ args = [i \in 1..Len(call.arg_types) |-> Arg(call.arg_types[i].spread)]
    /\ is_calling_iife = FALSE
    /\ reevaluating_call_or_new = FALSE
    /\ candidates = <<>>
    /\ callable = <<>>
    /\ result = NoResult
    /\ params = <<>>
    /\ arg_count_res = Ok
    /\ ArgTypesIdle
    /\ SortIdle
    /\ ReevalIdle
    /\ NarrowIdle
    /\ ThisIdle
    /\ SpreadIdle

\* extract_callee_candidates(span, kind, callee)
ExtractCalleeCandidates ==
    /\ pc = "extract_start"
    /\ candidates' = extract_callee_candidates(call.kind, call.callee)
    /\ pc' = "extract_listed"
    /\ UNCHANGED <<call, reevaluating_call_or_new, callable, result>>
    /\ UNCHANGED <<sortVars, arityVars, argTypesVars, reevalVars, narrowVars, thisVars, spreadVars>>

\* extract(span, expr, ty, kind, args, arg_types, spread_arg_types, type_args,
\* type_ann, opts) with the default CallOpts.
Extract ==
    /\ pc = "extract_listed"
    /\ \E spread \in {spread_args(call.arg_types)} :
       \E out \in {IF spread.ok THEN extract(call.callee, call.kind, CallCx, FALSE)
                   ELSE Failed("SpreadMustBeIterable", <<>>, <<>>)} :
        /\ spread_arg_types' = spread.types
        /\ storage' = storage \o out.diags
        /\ result' = [status |-> out.status, ty |-> out.ty, err |-> out.err]
    /\ pc' = "extract_done"
    /\ UNCHANGED <<call, reevaluating_call_or_new, candidates, callable, is_generic>>
    /\ UNCHANGED <<sortVars, arityVars, reevalVars, narrowVars, thisVars, spreadVars>>

ExtractNext == ExtractCalleeCandidates \/ Extract

SpecExtract == ExtractInit /\ [][ExtractNext]_vars

\* The candidates the declared constructors of a class definition give.
DeclaredConstructorCandidates(cls) ==
    [i \in 1..Len(cls.constructors) |->
        CallCandidate(cls.constructors[i].type_params, cls.constructors[i].params,
                      ClassInstance(cls.name))]

\* C21: extract_callee_candidates on a class definition returns no candidate
\* for kind Call; for kind New it returns one candidate per declared
\* constructor in declaration order, else the candidates of the super class
\* when it has some, else the single zero-parameter candidate that returns
\* an instance of the class itself; for kind New the list is never empty.
C21_ClassDefCandidates ==
    (pc # "extract_start" /\ call.callee.k = "ClassDef") =>
        LET cls == call.callee
            own == DeclaredConstructorCandidates(cls)
            of_super == IF cls.super_class = None THEN <<>>
                        ELSE extract_callee_candidates("New", cls.super_class[1])
        IN  IF call.kind = "Call" THEN candidates = <<>>
            ELSE /\ candidates # <<>>
                 /\ own # <<>> => candidates = own
                 /\ (own = <<>> /\ of_super # <<>>) => candidates = of_super
                 /\ (own = <<>> /\ of_super = <<>>) =>
                        candidates = <<CallCandidate(None, <<>>, ClassInstance(cls.name))>>

\* `new D` for class D { } without a super class: the implicit constructor.
C21_Witness ==
    /\ pc = "extract_listed"
    /\ call.kind = "New"
    /\ call.callee = ClassDef("D", FALSE, <<>>, <<>>, None)
    /\ candidates = <<CallCandidate(None, <<>>, ClassInstance("D"))>>

\* The callee with the type parameter replaced by its constraint, alone or
\* as a member of a union or an intersection.
WithConstraint(ty) ==
    IF HasConstraint(ty) THEN ty.constraint
    ELSE IF ty.k \in {"Union", "Intersection"}
         THEN [ty EXCEPT !.types = [i \in 1..Len(ty.types) |->
                                        IF HasConstraint(ty.types[i]) THEN ty.types[i].constraint
                                        ELSE ty.types[i]]]
         ELSE ty

\* What calling a value of the type callee_ty gives at the call under
\* analysis.
ResolvesAs(callee_ty) ==
    LET out == extract(callee_ty, call.kind, CallCx, FALSE)
    IN  [status |-> out.status, ty |-> out.ty, err |-> out.err]

\* C22: for a callee that is a type parameter T with constraint C, alone or
\* as a member of a union or an intersection, extract_callee_candidates
\* yields the candidates of the callee with C in the place of T, and calling
\* a value of type T resolves as calling a value of type C.
C22_ParamRecursesIntoConstraint ==
    (pc = "extract_done" /\ WithConstraint(call.callee) # call.callee) =>
        /\ candidates = extract_callee_candidates(call.kind, WithConstraint(call.callee))
        /\ HasConstraint(call.callee) => result = ResolvesAs(call.callee.constraint)

\* A non-abstract class definition without a declared constructor that
\* extends a class definition.
IsDerivedWithoutConstructor(ty) ==
    /\ ty.k = "ClassDef"
    /\ ~ty.is_abstract
    /\ ty.constructors = <<>>
    /\ ty.super_class # None
    /\ ty.super_class[1].k = "ClassDef"

\* C30: `new D(...)` for a non-abstract class definition D that declares no
\* constructor and extends a class B has the type of an instance of D, and
\* every candidate extract_callee_candidates yields for D with kind New
\* returns an instance of D.
C30_NewDerivedGivesDerivedInstance ==
    (pc = "extract_done" /\ call.kind = "New" /\ IsDerivedWithoutConstructor(call.callee)) =>
        /\ result.status = "Ok" => result.ty = Some(ClassInstance(call.callee.name))
        /\ \A i \in 1..Len(candidates) : candidates[i].ret_ty = ClassInstance(call.callee.name)

\* ------------------------------------------------------------------------
\* call_property on an interface receiver
\* ------------------------------------------------------------------------
MaxParents == 2

\* The names in the `extends` clause: I, S and M are declared, Missing is not.
ParentNames == {"I", "S", "M", "Missing"}

\* The bodies of the interfaces, restricted to the called property: no
\* method, one method, two overloads.
InterfaceMemberLists ==
    {<<>>, <<TypeElement("Method", NumberToA)>>,
     <<TypeElement("Method", StringToB), TypeElement("Method", BooleanToB)>>}

\* interface R extends .. { .. }
InterfaceReceivers ==
    {Interface("R", ext, ms) : ext \in SeqsUpTo(ParentNames, MaxParents), ms \in InterfaceMemberLists}

\* The result of call_property_of_type_elements on each body, at the call
\* site under analysis: [status, err].
InterfaceCx ==
    [ms \in InterfaceMemberLists |->
        LET out == call_property_of_type_elements(ms, this_call.kind, ThisCallSite)
        IN  [status |-> out.status, err |-> out.err]]

RECURSIVE CallPropertyOfInterface(_, _)
RECURSIVE CallPropertyOfInterfaceParents(_, _, _, _)

\* `for parent in &i.extends { .. } return Err(err);` of the interface arm:
\* err is the error of the body of the interface.
CallPropertyOfInterfaceParents(extends, i, err, cx) ==
    IF i > Len(extends)
    THEN [status |-> "Err", err |-> err, parents |-> extends]
    ELSE IF ~ResolvesEntityName(extends[i])
    THEN [status |-> "Err", err |-> "TypeNotFound", parents |-> SubSeq(extends, 1, i - 1)]
    ELSE Bind(CallPropertyOfInterface(type_of_ts_entity_name(extends[i]), cx),
              LAMBDA r : IF r.status = "Ok"
                         THEN [status |-> "Ok", err |-> "", parents |-> SubSeq(extends, 1, i)]
                         ELSE CallPropertyOfInterfaceParents(extends, i + 1, err, cx))

\* The interface arm of call_property: the result, the error and the
\* parents call_property was called on, in that order.
CallPropertyOfInterface(iface, cx) ==
    IF cx[iface.members].status = "Ok"
    THEN [status |-> "Ok", err |-> "", parents |-> <<>>]
    ELSE CallPropertyOfInterfaceParents(iface.extends, 1, cx[iface.members].err, cx)

InterfaceInit ==
    /\ pc = "interface_start"
    /\ scope_this = None
    /\ this_call \in [obj_type : InterfaceReceivers, kind : {"Call", "New"},
                      arg_ty : {Keyword("number"), Keyword("string")}]
    /\ this_inner = None
    /\ this_result = ""
    /\ this_err = ""
    /\ parents_tried = <<>>
    /\ SortIdle
    /\ ArityIdle
    /\ ArgTypesIdle
    /\ CallIdle
    /\ ReevalIdle
    /\ NarrowIdle
    /\ SpreadIdle

\* r.prop(arg) or new r.prop(arg) for r of the interface type R.
CallPropertyOfInterfaceReceiver ==
    /\ pc = "interface_start"
    /\ \E cx \in {InterfaceCx} :
       \E r \in {CallPropertyOfInterface(this_call.obj_type, cx)} :
        /\ this_result' = r.status
        /\ this_err' = r.err
        /\ parents_tried' = r.parents
    /\ pc' = "interface_done"
    /\ UNCHANGED <<scope_this, this_call, this_inner>>
    /\ UNCHANGED <<sortVars, arityVars, argTypesVars, callVars, reevalVars, narrowVars, spreadVars>>

InterfaceNext == CallPropertyOfInterfaceReceiver

SpecInterface == InterfaceInit /\ [][InterfaceNext]_vars

\* The property call on the members of the interface named name, and on its
\* parents in turn, succeeds.
RECURSIVE InterfaceHasCallableProperty(_)
InterfaceHasCallableProperty(name) ==
    /\ ResolvesEntityName(name)
    /\ LET iface == type_of_ts_entity_name(name)
       IN  \/ InterfaceCx[iface.members].status = "Ok"
           \/ \E k \in 1..Len(iface.extends) : InterfaceHasCallableProperty(iface.extends[k])

\* C23: call_property on an interface receiver returns the result of the
\* interface's own members when that succeeds, without calling call_property
\* on any parent; otherwise it tries the parents in declaration order and
\* returns the first success; when every parent fails too it returns the
\* error of the own-member attempt.
C23_OwnMembersThenParents ==
    pc = "interface_done" =>
        LET iface == this_call.obj_type
            own == InterfaceCx[iface.members]
            succeeding == {k \in 1..Len(iface.extends) : InterfaceHasCallableProperty(iface.extends[k])}
            first == CHOOSE k \in succeeding : \A j \in succeeding : k <= j
        IN  IF own.status = "Ok"
            THEN this_result = "Ok" /\ parents_tried = <<>>
            ELSE IF succeeding # {}
                 THEN this_result = "Ok" /\ parents_tried = SubSeq(iface.extends, 1, first)
                 ELSE /\ this_result = "Err"
                      /\ this_err = own.err
                      /\ parents_tried = iface.extends

\* ------------------------------------------------------------------------
\* Claims on the narrowed type of a class-definition predicate
\* ------------------------------------------------------------------------
\* ty is a class definition, or a union or intersection with a class
\* definition among its members.
HoldsBareClassDef(ty) ==
    \/ ty.k = "ClassDef"
    \/ /\ ty.k \in {"Union", "Intersection"}
       /\ \E i \in 1..Len(ty.types) : ty.types[i].k = "ClassDef"

\* C24: whenever the asserted type of a type predicate is a class
\* definition, the narrowed type store_call_fact_for_var records is, or is
\* built from, the class instance type and never holds the bare class
\* definition, whatever the original type of the variable.
C24_ClassDefIsMaterialized ==
    predicate_ty.k = "ClassDef" =>
        \A i \in 1..Len(narrowed) : ~HoldsBareClassDef(narrowed[i])

\* ------------------------------------------------------------------------
\* Claims on the minimum computed by validate_arg_count
\* ------------------------------------------------------------------------
\* The guard of `min_param -= 1` holds for the last parameter of ps.
TrailingVoidReduction(ps) ==
    /\ ps # <<>>
    /\ LET last == ps[Len(ps)]
       IN  /\ ~(last.pat.k = "Rest" /\ Normalize(last.ty).k = "Tuple")
           /\ ~IsThisPat(last.pat)
           /\ last.required
           /\ ~IsAny(last.ty)
           /\ Assignable(last.ty, Keyword("void"))

\* C25: validate_arg_count never drives the computed minimum below zero: the
\* trailing-void reduction is applied only when the last parameter
\* contributed 1 to the minimum, so the subtraction neither panics nor wraps.
C25_MinimumNeverBelowZero ==
    /\ pc # "arity_panicked"
    /\ pc = "arity_done" =>
          /\ TrailingVoidReduction(params) => count_required_pat(params[Len(params)].pat) = 1
          /\ ~arg_count_res.ok => arg_count_res.min <= Len(params)

\* ------------------------------------------------------------------------
\* add_call_facts
\* ------------------------------------------------------------------------
MaxFactArgs == 2

\* Type::Predicate: `param_name is ty`; param_name is an identifier or "this".
Predicate(param_name, ty) == [k |-> "Predicate", param_name |-> param_name, ty |-> ty]

\* An argument expression of the call: the identifier x or y, or a literal.
ArgExpr(expr) == [spread |-> FALSE, expr |-> expr]
IsIdentExpr(arg) == arg.expr \in {"x", "y"}

\* The loop over params.iter().enumerate() from the parameter at idx on
\* (idx counts from 1): [panicked, facts].  `&args[idx]` panics when the
\* call has no argument at that index.
RECURSIVE AddCallFactsFrom(_, _, _, _, _)
AddCallFactsFrom(ps, as, arg_id, idx, facts) ==
    IF idx > Len(ps) THEN [panicked |-> FALSE, facts |-> facts]
    ELSE IF ps[idx].pat.k = "Ident" /\ ps[idx].pat.sym = arg_id
         THEN IF idx > Len(as) THEN [panicked |-> TRUE, facts |-> facts]
              ELSE AddCallFactsFrom(ps, as, arg_id, idx + 1,
                                    IF IsIdentExpr(as[idx]) THEN Append(facts, as[idx].expr)
                                    ELSE facts)
         ELSE AddCallFactsFrom(ps, as, arg_id, idx + 1, facts)

add_call_facts(ps, as, ret_ty) ==
    IF Normalize(ret_ty).k # "Predicate" THEN [panicked |-> FALSE, facts |-> <<>>]
    ELSE IF ret_ty.ty = None THEN [panicked |-> FALSE, facts |-> <<>>]
    \* RTsThisTypeOrIdent::TsThisType
    ELSE IF ret_ty.param_name = "this" THEN [panicked |-> FALSE, facts |-> <<>>]
    ELSE AddCallFactsFrom(ps, as, ret_ty.param_name, 1, <<>>)

\* (a: any), (a?: any), (a: any, b: any), (a: any, b?: any), each also after
\* a `this` parameter.
FactSignatures ==
    LET a(opt) == FnParam(IdentPat("a", opt), Keyword("any"), ~opt)
        b(opt) == FnParam(IdentPat("b", opt), Keyword("any"), ~opt)
        plain == {<<a(FALSE)>>, <<a(TRUE)>>, <<a(FALSE), b(FALSE)>>, <<a(FALSE), b(TRUE)>>}
    IN  plain \cup {<<FnParam(ThisPat, Keyword("any"), TRUE)>> \o ps : ps \in plain}

\* The return types: `a is D`, `b is D`, `this is D`, an assertion without a
\* type, and a type that is no predicate.
FactReturnTypes ==
    {Predicate("a", Some(ClassInstance("D"))), Predicate("b", Some(ClassInstance("D"))),
     Predicate("this", Some(ClassInstance("D"))), Predicate("a", None), Keyword("boolean")}

FactsInit ==
    /\ pc = "facts_start"
    /\ params \in FactSignatures
    /\ args \in SeqsUpTo({ArgExpr(e) : e \in {"x", "y", "literal"}}, MaxFactArgs)
    /\ predicate_ty \in FactReturnTypes
    /\ previous_types = Keyword("any")
    /\ narrowed = <<>>
    /\ call_facts = <<>>
    /\ is_calling_iife = FALSE
    /\ arg_count_res = Ok
    /\ SortIdle
    /\ ArgTypesIdle
    /\ CallIdle
    /\ ReevalIdle
    /\ ThisIdle
    /\ SpreadIdle

\* `if kind == ExtractKind::Call { self.add_call_facts(&params, args, &mut ret_ty); }`
\* at the end of get_return_type, which has reported the result of
\* validate_arg_count and gone on.
AddCallFacts ==
    /\ pc = "facts_start"
    /\ \E r \in {add_call_facts(params, args, predicate_ty)} :
        /\ call_facts' = r.facts
        /\ pc' = IF r.panicked THEN "facts_panicked" ELSE "facts_done"
    /\ arg_count_res' = validate_arg_count(params, args, is_calling_iife)
    /\ UNCHANGED <<params, args, is_calling_iife, previous_types, predicate_ty, narrowed>>
    /\ UNCHANGED <<sortVars, argTypesVars, callVars, reevalVars, thisVars, spreadVars>>

FactsNext == AddCallFacts

SpecFacts == FactsInit /\ [][FactsNext]_vars

\* The position, among the arguments, of the argument passed to the
\* parameter named arg_id: `this` takes no argument.  0 when no parameter
\* has that name.
ArgPositionOf(ps, arg_id) ==
    LET declared == WithoutThis(ps)
        at == {i \in 1..Len(declared) : declared[i].pat.k = "Ident" /\ declared[i].pat.sym = arg_id}
    IN  IF at = {} THEN 0 ELSE CHOOSE i \in at : TRUE

\* C26: add_call_facts never reads an argument the call does not supply, and
\* records a fact exactly for the identifier passed to the predicate's
\* parameter: none when that parameter is omitted at the call site or is
\* given another expression, and with a leading `this` parameter the
\* argument is not taken one position further.
C26_FactForThePassedArgument ==
    /\ pc # "facts_panicked"
    /\ (pc = "facts_done" /\ predicate_ty.k = "Predicate" /\ predicate_ty.ty # None
        /\ predicate_ty.param_name # "this") =>
          LET at == ArgPositionOf(params, predicate_ty.param_name)
          IN  call_facts = IF at >= 1 /\ at <= Len(args) /\ IsIdentExpr(args[at])
                           THEN <<args[at].expr>>
                           ELSE <<>>

\* ------------------------------------------------------------------------
\* Claims on check_call_args against the final validation
\* ------------------------------------------------------------------------
\* The final validation of the candidate under classification accepts the
\* call: validate_arg_count succeeds and validate_arg_types records nothing.
FinalValidationAccepts ==
    /\ validate_arg_count(candidates[1].params, args, is_calling_iife).ok
    /\ validate_arg_types(candidates[1].params, call.arg_types, FALSE) = <<>>

\* C27: for a call without spread arguments and without type arguments and
\* a signature without type parameters, if validate_arg_count succeeds and
\* validate_arg_types records no diagnostic then check_call_args classifies
\* the signature neither as ArgTypeMismatch nor as WrongArgCount.
C27_RankingAgreesWithValidation ==
    (/\ pc = "classify_done"
     /\ NoSpreadTypes(call.arg_types)
     /\ candidates[1].type_params = None
     /\ call.type_args = None
     /\ FinalValidationAccepts) =>
        callable[1].res \notin {"ArgTypeMismatch", "WrongArgCount"}

\* ------------------------------------------------------------------------
\* Claims on the diagnostics of the two passes
\* ------------------------------------------------------------------------
ArityDiagCount == DiagCount("ExpectedNArgsButGotM") + DiagCount("ExpectedAtLeastNArgsButGotM")

\* C28: one arity violation or one type-argument count mismatch against the
\* chosen signature leaves exactly one diagnostic of that kind in the
\* storage when the call expression is resolved, also when the signature is
\* generic and the call was re-evaluated.
C28_CountProblemReportedOnce ==
    ResolvedByGetReturnType =>
        LET chosen == candidates[callable[1].c]
        IN  /\ ~validate_arg_count(chosen.params, args, is_calling_iife).ok => ArityDiagCount = 1
            /\ ~validate_type_args_count(chosen.type_params, call.type_args)
                  => DiagCount("TypeParameterCountMismatch") = 1


\* ------------------------------------------------------------------------
\* ctx.is_calling_iife across the validators of call, new and tagged-template
\* expressions
\* ------------------------------------------------------------------------
MaxSiteExprs == 3

\* Callees: a function expression, a parenthesized expression, an identifier.
FnCallee == [k |-> "Fn"]
ArrowCallee == [k |-> "Arrow"]
ParenCallee(expr) == [k |-> "Paren", expr |-> expr]
IdentCallee == [k |-> "Ident"]

RECURSIVE is_fn_expr(_)
is_fn_expr(callee) ==
    IF callee.k \in {"Arrow", "Fn"} THEN TRUE
    ELSE IF callee.k = "Paren" THEN is_fn_expr(callee.expr)
    ELSE FALSE

\* A call, new or tagged-template expression: parent is the expression it is
\* an argument of (0 for the outermost one); missing tells whether the
\* signature of its callee requires one argument more than the site passes.
SiteExpr(parent, kind, callee, missing) ==
    [parent |-> parent, kind |-> kind, callee |-> callee, missing |-> missing]

SiteVariants ==
    {[kind |-> "Call", callee |-> ParenCallee(FnCallee)],
     [kind |-> "Call", callee |-> IdentCallee],
     [kind |-> "New", callee |-> IdentCallee],
     [kind |-> "TaggedTpl", callee |-> IdentCallee]}

RECURSIVE SiteTreesOfSize(_)
SiteTreesOfSize(n) ==
    IF n = 1
    THEN {<<SiteExpr(0, x.kind, x.callee, m)>> : x \in SiteVariants, m \in BOOLEAN}
    ELSE {Append(t, SiteExpr(p, x.kind, x.callee, m)) :
             t \in SiteTreesOfSize(n - 1), p \in 1..(n - 1), x \in SiteVariants, m \in BOOLEAN}

SiteTrees == UNION {SiteTreesOfSize(n) : n \in 1..MaxSiteExprs}

\* The arguments extract_call_new_expr_member receives: those written at the
\* site, after tpl_str_arg for a tagged template.
SiteArgs(es, e) ==
    [i \in 1..(Len(ChildrenOf(es, e)) + (IF es[e].kind = "TaggedTpl" THEN 1 ELSE 0)) |-> Arg(FALSE)]

\* The parameters of the signature the callee of e resolves to: all required.
SiteParams(es, e) ==
    [i \in 1..(Len(SiteArgs(es, e)) + (IF es[e].missing THEN 1 ELSE 0)) |->
        FnParam(IdentPat("a", FALSE), Keyword("number"), TRUE)]

\* A validator in progress: the expression, ctx.is_calling_iife of its
\* analyzer, how many arguments validate_args has validated, and what
\* validate_arg_count returned (None before it ran).
SiteFrame(e, flag, done, res) ==
    [e |-> e, is_calling_iife |-> flag, done |-> done, res |-> res]

IifeInit ==
    /\ pc = "iife_start"
    /\ exprs \in SiteTrees
    /\ stack = <<>>
    /\ validated = [i \in 1..Len(exprs) |-> 0]
    /\ reevaluated = <<>>
    /\ SortIdle
    /\ ArityIdle
    /\ ArgTypesIdle
    /\ CallIdle
    /\ NarrowIdle
    /\ ThisIdle
    /\ SpreadIdle

\* The expression whose validator runs next: the outermost one, or the next
\* argument of the site on top (validate_args).
NextSite ==
    IF pc = "iife_start" THEN 1
    ELSE IF pc = "iife_run" /\ stack # <<>> /\ Top.res = None
            /\ Top.done < Len(ChildrenOf(exprs, Top.e))
    THEN ChildrenOf(exprs, Top.e)[Top.done + 1]
    ELSE 0

\* self.ctx of the caller of the validator: Default at the outermost
\* expression, `..self.ctx` of the enclosing site in validate_args.
InheritedCtx == IF stack = <<>> THEN FALSE ELSE Top.is_calling_iife

EnterSite(e, flag) ==
    /\ stack' = Append(stack, SiteFrame(e, flag, 0, None))
    /\ validated' = [validated EXCEPT ![e] = @ + 1]
    /\ pc' = "iife_run"
    /\ UNCHANGED <<exprs, reevaluated>>
    /\ UNCHANGED <<sortVars, arityVars, argTypesVars, callVars, narrowVars, thisVars, spreadVars>>

\* validate(RCallExpr): `analyzer.ctx.is_calling_iife = is_callee_iife`.
ValidateCallExpr ==
    /\ NextSite # 0
    /\ exprs[NextSite].kind = "Call"
    /\ EnterSite(NextSite, is_fn_expr(exprs[NextSite].callee))

\* validate(RNewExpr): with_child keeps the ctx of the caller.
ValidateNewExpr ==
    /\ NextSite # 0
    /\ exprs[NextSite].kind = "New"
    /\ EnterSite(NextSite, InheritedCtx)

\* validate(RTaggedTpl): with_child keeps the ctx of the caller.
ValidateTaggedTpl ==
    /\ NextSite # 0
    /\ exprs[NextSite].kind = "TaggedTpl"
    /\ EnterSite(NextSite, InheritedCtx)

\* The arguments are validated; validate_arg_count runs against the
\* signature under the ctx of the site.
ValidateArgCountOfSite ==
    /\ pc = "iife_run"
    /\ Top.res = None
    /\ Top.done = Len(ChildrenOf(exprs, Top.e))
    /\ stack' = [stack EXCEPT ![Len(stack)].res =
                    Some(validate_arg_count(SiteParams(exprs, Top.e), SiteArgs(exprs, Top.e),
                                            Top.is_calling_iife))]
    /\ UNCHANGED <<pc, exprs, validated, reevaluated>>
    /\ UNCHANGED <<sortVars, arityVars, argTypesVars, callVars, narrowVars, thisVars, spreadVars>>

\* The validator returns to validate_args of the enclosing site.
ReturnFromSite ==
    /\ pc = "iife_run"
    /\ Top.res # None
    /\ IF Len(stack) = 1
       THEN stack' = <<>> /\ pc' = "iife_done"
       ELSE /\ stack' = [SubSeq(stack, 1, Len(stack) - 1) EXCEPT ![Len(stack) - 1].done = @ + 1]
            /\ pc' = pc
    /\ UNCHANGED <<exprs, validated, reevaluated>>
    /\ UNCHANGED <<sortVars, arityVars, argTypesVars, callVars, narrowVars, thisVars, spreadVars>>

IifeNext ==
    \/ ValidateCallExpr
    \/ ValidateNewExpr
    \/ ValidateTaggedTpl
    \/ ValidateArgCountOfSite
    \/ ReturnFromSite

SpecIife == IifeInit /\ [][IifeNext]_vars

\* The site is the call of a function expression.
IsIifeCall(e) == exprs[e].kind = "Call" /\ is_fn_expr(exprs[e].callee)

\* C29: the leniency for immediately-invoked function expressions applies to
\* the IIFE call only: no other site runs with ctx.is_calling_iife true, and a
\* `new` expression or a tagged template that passes fewer arguments than
\* the minimum is rejected by validate_arg_count wherever it is nested.
C29_IifeFlagOnlyForTheIifeCall ==
    pc = "iife_run" =>
        \A i \in 1..Len(stack) :
            /\ stack[i].is_calling_iife => IsIifeCall(stack[i].e)
            /\ (stack[i].res # None /\ exprs[stack[i].e].kind \in {"New", "TaggedTpl"}
                    /\ exprs[stack[i].e].missing)
                  => ~stack[i].res[1].ok

====
